---- MODULE Spec2Model ----
(***************************************************************************)
(* Model of the telegram-auto-send scheduling and delivery engine:         *)
(* database.py (per-account repository), session_manager.py (transport     *)
(* session and delivery loop), auto_sender.py (session cache, scheduled    *)
(* pass, immediate pass, scheduler loop).                                  *)
(*                                                                         *)
(* The program runs on one asyncio event loop: a task runs alone until it  *)
(* reaches an await on the transport or on asyncio.sleep.  A task whose pc *)
(* is in YieldPcs is suspended at such an await; any other pc means the    *)
(* task holds the event loop, and then no other task and no front-end      *)
(* operation may take a step.                                              *)
(*                                                                         *)
(* Time is counted in minutes.  `now` is the UTC clock that SQLite's       *)
(* datetime('now') reads; Python's datetime.now() reads now + tz.          *)
(***************************************************************************)
EXTENDS Integers, Sequences, FiniteSets, TLC

\* ------------------------------------------------------------------ bounds
MaxGroups   == 2      \* group rows per account
MaxMsgs     == 2      \* message rows per account
MaxSets     == 1      \* set_setting calls in one behaviour
MaxSendNow  == 2      \* send_now calls in one behaviour
MaxSweeps   == 2      \* sweeps of the scheduler loop in one behaviour
MaxSessions == 2      \* SessionManager objects that get a client
MaxGets     == 2      \* get_setting calls of the front end in one behaviour
MaxTicks    == 1      \* clock advances in one behaviour
MaxCallbackSends == 1 \* send_now callbacks in one behaviour
ClockStep   == 90     \* minutes per clock advance
JitterStep  == 30     \* random.randint is sampled at its ends and on this grid
StartNow    == 1380   \* the behaviour starts at 23:00 of day 0

\* ------------------------------------------------------- program constants
MinutesPerDay == 1440

Acct  == {"a1", "a2"}
NoRow == "<absent>"
Null  == -1

SettingKeys == {"min_interval", "max_interval", "auto_send", "send_delay"}

\* a key that is not among the recognized ones
OtherKeys == {"missing_key"}
\* the keys of the settings table (key TEXT PRIMARY KEY)
Keys == SettingKeys \cup OtherKeys

\* database.py:94-99
DefaultSettings ==
  [k \in SettingKeys |->
     CASE k = "min_interval" -> "60"
       [] k = "max_interval" -> "90"
       [] k = "auto_send"    -> "1"
       [] k = "send_delay"   -> "2"]

\* the strings the front end may store with set_setting
SettingInputs(k) ==
  CASE k = "min_interval" -> {"90", "120"}
    [] k = "max_interval" -> {"120"}
    [] k = "auto_send"    -> {"0"}
    [] k = "send_delay"   -> {"0"}
    [] k = "missing_key"  -> {"v"}

\* the defaults a caller may pass to get_setting
Defaults == {"fallback", "other"}

NumStrs == {"0", "1", "2", "30", "60", "90", "120"}

\* Python int(str): defined on decimal strings only, ValueError otherwise
IsInt(s) == s \in NumStrs
IntOf(s) ==
  CASE s = "0" -> 0 [] s = "1" -> 1 [] s = "2" -> 2 [] s = "30" -> 30
    [] s = "60" -> 60 [] s = "90" -> 90 [] s = "120" -> 120

Outcomes == {"ok", "flood", "perm", "exc"}

\* FloodWaitError.seconds of a throttle signal
FloodWaits == {3, 7}

\* offsets of the host's local time from UTC, minutes
TimeZones == {0, 120, -300}

VARIABLES
  now,        \* UTC clock, minutes
  tz,         \* offset of the host's local clock from UTC, minutes
  ticks,      \* clock advances so far
  accounts,   \* account directories that exist
  settings,   \* settings[a][k]: value string or NoRow
  messages,   \* messages[a]: rows of table messages, in rowid order
  groups,     \* groups[a]: rows of table groups, in rowid order
  stats,      \* stats[a]: rows of table statistics
  users,      \* users[a]: rows of table user_account
  sets,       \* set_setting calls so far
  got,        \* history: the get_setting calls of the front end, with results
  sessions,   \* SessionManager objects: sessions[i] = [acct, file, client, evicted]
  cache,      \* AutoSender.active_sessions: cache[a] = object id, 0 if absent
  running,    \* AutoSender.running
  sweeps,     \* sweeps started so far
  nowCalls,   \* send_now calls so far
  task,       \* task[t]: position and locals of each asyncio task; the fields
              \* outs (the transport's answers in the delivery call in progress,
              \* "skip" where no call was made) and okTot (answers "ok" in the
              \* pass), calls (the accounts process_account was called for in
              \* the sweep) and errs (the errors in sweeps so far) are history
  statLog,    \* history: arguments of every update_stats call, per account
  userStates, \* BotHandlers.user_states: userStates[u] = the pending
              \* conversation of sender u, NoState if u has no entry
  acted       \* history: the sender and the account of the handler that ran
              \* last for an account, and whether a callback or a text
              \* message started it; NoAct before the first

repoVars   == <<settings, messages, groups, stats, users>>
clockVars  == <<now, tz, ticks>>
poolVars   == <<sessions, cache>>
loopVars   == <<running, sweeps>>
frontVars  == <<userStates, acted>>
vars == <<now, tz, ticks, accounts, settings, messages, groups, stats, users,
          sets, got, sessions, cache, running, sweeps, nowCalls, task, statLog,
          userStates, acted>>

\* ------------------------------------------------------------ clock
UtcNow   == now
LocalNow == now + tz
\* datetime.now().date()
Today    == LocalNow \div MinutesPerDay

\* ============================================================ repository
\* The state of a repository file that init_database has never touched.
FreshSettings == [k \in Keys |-> NoRow]

\* mutant of InitDatabase: INSERT OR REPLACE of the four defaults
InitDatabaseReplacing(st) ==
  [k \in Keys |-> IF k \in SettingKeys THEN DefaultSettings[k] ELSE st[k]]

\* Database.__init__ / init_database: INSERT OR IGNORE of the four defaults
InitDatabase(st) ==
  [k \in Keys |-> IF k \in SettingKeys /\ st[k] = NoRow THEN DefaultSettings[k]
                 ELSE st[k]]

\* mutant of GetSetting: the default is ignored, a miss gives no value
GetSettingNoDefault(st, k, default) == st[k]

\* Database.get_setting
GetSetting(st, k, default) == IF st[k] # NoRow THEN st[k] ELSE default

\* Database.set_setting: INSERT OR REPLACE
SetSettingRow(st, k, v) == [st EXCEPT ![k] = v]

\* Database.get_messages(active_only=True)
GetMessages(ms) == SelectSeq(ms, LAMBDA m : m.active)

\* mutant of IsPending: is_active is not looked at
IsPendingAnyRow(m, utc) == m.next_send # Null /\ m.next_send <= utc

\* Database.get_pending_messages: is_active = 1 AND next_send <= datetime('now')
\* (a NULL next_send compares as NULL and the row is left out)
IsPending(m, utc) == m.active /\ m.next_send # Null /\ m.next_send <= utc
GetPendingMessages(ms, utc) == SelectSeq(ms, LAMBDA m : IsPending(m, utc))

\* Database.get_groups(active_only=True)
GetGroups(gs) == SelectSeq(gs, LAMBDA g : g.active)

\* Database.get_user: SELECT * FROM user_account WHERE is_active = 1 LIMIT 1
GetUser(us) == SelectSeq(us, LAMBDA u : u.active)

\* random.randint(a, b): empty when a > b (ValueError)
RandInt(a, b) ==
  {x \in a..b : x = a \/ x = b \/ (x - a) % JitterStep = 0}

\* The interval update_message_after_send draws from; empty when int() or
\* randint raises, and then the except branch returns False.
RescheduleJitter(st) ==
  LET mn == GetSetting(st, "min_interval", "60")
      mx == GetSetting(st, "max_interval", "90")
  IN  IF IsInt(mn) /\ IsInt(mx) THEN RandInt(IntOf(mn), IntOf(mx)) ELSE {}

\* UPDATE messages SET total_sent = total_sent + 1, last_sent = datetime('now'),
\* next_send = ? WHERE id = ?
RescheduleRow(m, utc, next) ==
  [m EXCEPT !.total_sent = @ + 1, !.last_sent = utc, !.next_send = next]

\* Database.update_message_after_send with jitter r
UpdateMessageAfterSend(ms, id, local, utc, r) ==
  [i \in 1..Len(ms) |->
     IF ms[i].id = id THEN RescheduleRow(ms[i], utc, local + r) ELSE ms[i]]

\* mutant of UpdateStats: INSERT OR REPLACE, the row of the date is overwritten
UpdateStatsReplace(rows, date, sent, ok, fail) ==
  Append(SelectSeq(rows, LAMBDA r : r.date # date),
         [date |-> date, sent |-> sent, ok |-> ok, fail |-> fail])

\* mutant of UpdateStats: on conflict messages_sent is set, not added to
UpdateStatsSentSet(rows, date, sent, ok, fail) ==
  IF \E i \in 1..Len(rows) : rows[i].date = date
  THEN [i \in 1..Len(rows) |->
          IF rows[i].date = date
          THEN [rows[i] EXCEPT !.sent = sent, !.ok = @ + ok, !.fail = @ + fail]
          ELSE rows[i]]
  ELSE Append(rows, [date |-> date, sent |-> sent, ok |-> ok, fail |-> fail])

\* Database.update_stats: INSERT ... ON CONFLICT(date) DO UPDATE SET x = x + excluded.x
UpdateStats(rows, date, sent, ok, fail) ==
  IF \E i \in 1..Len(rows) : rows[i].date = date
  THEN [i \in 1..Len(rows) |->
          IF rows[i].date = date
          THEN [rows[i] EXCEPT !.sent = @ + sent, !.ok = @ + ok, !.fail = @ + fail]
          ELSE rows[i]]
  ELSE Append(rows, [date |-> date, sent |-> sent, ok |-> ok, fail |-> fail])

\* Database.get_today_stats
GetTodayStats(rows, date) ==
  LET hit == SelectSeq(rows, LAMBDA r : r.date = date)
  IN  IF Len(hit) > 0
      THEN [sent |-> hit[1].sent, ok |-> hit[1].ok, fail |-> hit[1].fail]
      ELSE [sent |-> 0, ok |-> 0, fail |-> 0]

\* Database.add_message: the row INSERTed, next_send = datetime.now() + r minutes
NewMessage(ms, mn, mx, local, r) ==
  [id |-> Len(ms) + 1, min |-> mn, max |-> mx, active |-> TRUE,
   total_sent |-> 0, last_sent |-> Null, next_send |-> local + r]

\* Database.add_group: the row INSERTed
NewGroup(gs, link, tgid) ==
  [id |-> Len(gs) + 1, link |-> link, tgid |-> tgid, active |-> TRUE]

\* ============================================================ front end
\* event.sender_id of the events the bot receives; config.ADMIN_USER_ID
Admin   == "admin"
Senders == {"u1", "u2", Admin}

\* AccountManager.get_user_account_id: f"user_{user_id}"
GetUserAccountId(u) ==
  CASE u = "u1" -> "a1" [] u = "u2" -> "a2" [] OTHER -> "admin_account"

\* `user_id not in self.user_states`
NoState == [state |-> "", acct |-> "", phone |-> ""]
NoAct   == [sender |-> "", acct |-> "", action |-> ""]

\* ================================================================= tasks
UiTasks  == {"ui1"}
\* the coroutines of AutoSender.start: the one the program creates and a
\* second call
SchedTasks == {"sched", "sched2"}
Tasks    == SchedTasks \cup {"shut"} \cup UiTasks

\* pcs at which a task is suspended in an await (or has not been started)
YieldPcs == {"off", "idle", "sleep", "connecting", "sending", "backoff",
             "pacing", "disconnecting", "ended", "raised", "joining",
             "code_request", "signing", "signing_pw"}

NoResult == [success |-> FALSE, message |-> "", successful |-> 0, failed |-> 0,
             messages_count |-> 0, groups_count |-> 0, raised |-> FALSE]
Failure(msg) == [NoResult EXCEPT !.message = msg]
\* the call did not return: the exception went up to the caller
Raised(exc) == [NoResult EXCEPT !.message = exc, !.raised = TRUE]

\* process_group before its join: the link, what join_group returned and
\* what add_group returned (history)
NoJoin == [link |-> 0, joined |-> FALSE, tgid |-> 0, added |-> FALSE]

\* locals of a task that is in no pass
IdleTask(pc) ==
  [pc |-> pc, acct |-> "", mode |-> "", accts |-> <<>>, ai |-> 0,
   msgs |-> <<>>, mi |-> 0, grps |-> <<>>, gi |-> 0, sess |-> 0, delay |-> 0,
   succ |-> 0, fail |-> 0, totS |-> 0, totF |-> 0,
   outs |-> <<>>, okTot |-> 0, result |-> NoResult, calls |-> <<>>, errs |-> 0,
   wait |-> 0, slept |-> 0, sentTo |-> <<>>, fanned |-> <<>>, held |-> <<>>,
   join |-> NoJoin, sender |-> "", phone |-> "", answer |-> "", reply |-> ""]

\* the event loop is free: every task is suspended
NoneRunning == \A t \in Tasks : task[t].pc \in YieldPcs

Client(i) == sessions[i].client
\* SessionManager.is_connected
IsConnected(i) == Client(i) = "connected"

Dates == 0 .. ((StartNow + (MaxTicks + 1) * (ClockStep + 1)) \div MinutesPerDay)
NoCalls == [d \in Dates |-> [sent |-> 0, ok |-> 0, fail |-> 0, calls |-> 0]]
LogStats(log, d, sent, ok, fail) ==
  [log EXCEPT ![d] = [sent |-> @.sent + sent, ok |-> @.ok + ok,
                      fail |-> @.fail + fail, calls |-> @.calls + 1]]

\* all orders in which a set of accounts may be enumerated
Orders(S) ==
  {q \in UNION {[1..n -> S] : n \in {Cardinality(S)}} :
     \A i, j \in 1..Len(q) : i # j => q[i] # q[j]}

\* process_account / send_now return: the locals are dropped.  The scheduler
\* goes on with the next account of the sweep, a front-end task keeps the result.
SweepGoesOn(t, res) ==
  [IdleTask("next_acct") EXCEPT !.accts = task[t].accts, !.ai = task[t].ai,
                                !.calls = task[t].calls,
                                !.errs = task[t].errs + (IF res.raised THEN 1 ELSE 0)]

\* mutant of EndPass: an exception of process_account leaves the for loop
\* and reaches the handler of start(), which sleeps
EndPassAbortsSweep(t, res) ==
  IF t \in SchedTasks
  THEN IF res.raised THEN IdleTask("sleep") ELSE SweepGoesOn(t, res)
  ELSE [IdleTask("idle") EXCEPT !.result = res]

\* mutant of EndPass: an exception of process_account is caught nowhere and
\* ends the task of start()
EndPassKillsLoop(t, res) ==
  IF t \in SchedTasks
  THEN IF res.raised THEN IdleTask("raised") ELSE SweepGoesOn(t, res)
  ELSE [IdleTask("idle") EXCEPT !.result = res]

EndPass(t, res) ==
  IF t \in SchedTasks
  THEN SweepGoesOn(t, res)
  ELSE [IdleTask("idle") EXCEPT !.result = res]

\* ------------------------------------------------------- scheduler loop
\* AutoSender.start: self.running = True, then the while loop is entered
StartOf(t) ==
  /\ NoneRunning
  /\ t \in SchedTasks /\ task[t].pc = "off"
  /\ running' = TRUE
  /\ task' = [task EXCEPT ![t].pc = "loop_top"]
  /\ UNCHANGED <<clockVars, accounts, repoVars, sets, got, poolVars, sweeps, nowCalls, statLog, frontVars>>

\* mutant of KeepsLooping: `while True`
KeepsLoopingAlways(flag) == TRUE

\* `while self.running`
KeepsLooping(flag) == flag

\* while self.running: process_all_accounts() enumerates the accounts
LoopTopOf(t) ==
  /\ task[t].pc = "loop_top"
  /\ IF KeepsLooping(running)
     THEN /\ sweeps < MaxSweeps
          /\ \E q \in Orders(accounts) :
               task' = [task EXCEPT ![t].pc = "next_acct",
                                    ![t].accts = q, ![t].ai = 0,
                                    ![t].calls = <<>>]
          /\ sweeps' = sweeps + 1
     ELSE /\ task' = [task EXCEPT ![t] = IdleTask("ended")]
          /\ sweeps' = sweeps
  /\ UNCHANGED <<clockVars, accounts, repoVars, sets, got, poolVars, running, nowCalls, statLog, frontVars>>

\* get_all_accounts fails (iterdir raises): it logs and returns [], the sweep
\* has no account
EnumFailsOf(t) ==
  /\ task[t].pc = "loop_top"
  /\ running
  /\ sweeps < MaxSweeps
  /\ sweeps' = sweeps + 1
  /\ task' = [task EXCEPT ![t].pc = "next_acct", ![t].accts = <<>>,
                          ![t].ai = 0, ![t].calls = <<>>,
                          ![t].errs = @ + 1]
  /\ UNCHANGED <<clockVars, accounts, repoVars, sets, got, poolVars, running, nowCalls, statLog, frontVars>>

\* for account_id in accounts: await self.process_account(account_id);
\* after the last one, await asyncio.sleep(AUTO_SEND_CHECK_INTERVAL)
NextAcctOf(t) ==
  /\ task[t].pc = "next_acct"
  /\ LET r == task[t] IN
     IF r.ai < Len(r.accts)
     THEN task' = [task EXCEPT ![t].pc = "begin", ![t].mode = "sched",
                               ![t].ai = r.ai + 1,
                               ![t].acct = r.accts[r.ai + 1],
                               ![t].calls = Append(r.calls, r.accts[r.ai + 1])]
     ELSE task' = [task EXCEPT ![t] = [IdleTask("sleep") EXCEPT !.errs = r.errs]]
  /\ UNCHANGED <<clockVars, accounts, repoVars, sets, got, poolVars, loopVars, nowCalls, statLog, frontVars>>

\* asyncio.sleep(AUTO_SEND_CHECK_INTERVAL) returns
WakeOf(t) ==
  /\ NoneRunning
  /\ task[t].pc = "sleep"
  /\ task' = [task EXCEPT ![t].pc = "loop_top"]
  /\ UNCHANGED <<clockVars, accounts, repoVars, sets, got, poolVars, loopVars, nowCalls, statLog, frontVars>>

\* the loop of the one start() call that TelegramBot.start makes
Start     == StartOf("sched")
LoopTop   == LoopTopOf("sched")
EnumFails == EnumFailsOf("sched")
NextAcct  == NextAcctOf("sched")
Wake      == WakeOf("sched")

\* AutoSender.stop: self.running = False
Stop ==
  /\ NoneRunning
  /\ running' = FALSE
  /\ UNCHANGED <<clockVars, accounts, repoVars, sets, got, poolVars, sweeps,
                 nowCalls, task, statLog, frontVars>>

\* ------------------------------------------------------- immediate pass
\* handle_send_now calls AutoSender.send_now(account_id)
SendNowCall(t, a) ==
  /\ NoneRunning
  /\ t \in UiTasks /\ task[t].pc = "idle"
  /\ a \in accounts
  /\ nowCalls < MaxSendNow
  /\ nowCalls' = nowCalls + 1
  /\ task' = [task EXCEPT ![t] = [IdleTask("begin") EXCEPT !.acct = a, !.mode = "now"]]
  /\ UNCHANGED <<clockVars, accounts, repoVars, sets, got, poolVars, loopVars, statLog, frontVars>>

\* ----------------------------------------------------- the two passes
\* mutant of AutoSendDisabled: the comparison inverted
AutoSendDisabledInverted(st) == GetSetting(st, "auto_send", "1") = "1"

\* process_account: `if auto_send != '1': return`
AutoSendDisabled(st) == GetSetting(st, "auto_send", "1") # "1"

\* `if not pending_messages` / `if not messages` / `if not user_data`
IsEmpty(rows) == Len(rows) = 0

\* mutant of NoGroups: the check left out
NoGroupsUnchecked(gs) == FALSE

\* `if not groups`
NoGroups(gs) == Len(gs) = 0

Ids(rows)   == [i \in 1..Len(rows) |-> rows[i].id]
TgIds(rows) == [i \in 1..Len(rows) |-> rows[i].tgid]

\* The synchronous head of process_account (auto_sender.py:53-70) and of
\* send_now (auto_sender.py:133-144), up to the call of get_or_create_session.
PassBegin(t) ==
  /\ task[t].pc = "begin"
  /\ task[t].acct \in accounts
  /\ LET a    == task[t].acct
         st   == InitDatabase(settings[a])
         ms   == IF task[t].mode = "sched"
                 THEN GetPendingMessages(messages[a], UtcNow)
                 ELSE GetMessages(messages[a])
         gs   == GetGroups(groups[a])
         go   == [task[t] EXCEPT !.pc = "get_session", !.msgs = Ids(ms),
                                 !.grps = TgIds(gs)]
     IN  /\ settings' = [settings EXCEPT ![a] = st]
         /\ task' = [task EXCEPT ![t] =
              IF task[t].mode = "sched"
              THEN IF AutoSendDisabled(st) \/ IsEmpty(ms) \/ NoGroups(gs)
                   THEN EndPass(t, NoResult) ELSE go
              ELSE IF IsEmpty(ms) THEN EndPass(t, Failure("No active messages"))
                   ELSE IF NoGroups(gs) THEN EndPass(t, Failure("No active groups"))
                   ELSE go]
  /\ UNCHANGED <<clockVars, accounts, messages, groups, stats, users, sets, got,
                 poolVars, loopVars, nowCalls, statLog, frontVars>>

\* Database(account_path) raises: init_database has no handler, a storage
\* error (sqlite3.Error of connect or execute) leaves process_account or
\* send_now as an exception
OpenFails(t) ==
  /\ task[t].pc = "begin"
  /\ task' = [task EXCEPT ![t] = EndPass(t, Raised("sqlite3.Error"))]
  /\ UNCHANGED <<clockVars, accounts, repoVars, sets, got, poolVars, loopVars,
                 nowCalls, statLog, frontVars>>

\* handle_send_now for an account whose directory is gone (the button of an
\* earlier menu): send_now is called all the same
SendNowStale(t, a) ==
  /\ NoneRunning
  /\ t \in UiTasks /\ task[t].pc = "idle"
  /\ a \notin accounts
  /\ nowCalls < MaxSendNow
  /\ nowCalls' = nowCalls + 1
  /\ task' = [task EXCEPT ![t] = [IdleTask("begin") EXCEPT !.acct = a, !.mode = "now"]]
  /\ UNCHANGED <<clockVars, accounts, repoVars, sets, got, poolVars, loopVars, statLog, frontVars>>

\* AccountManager.delete_account: shutil.rmtree(account_path) removes the
\* directory with bot.db and the session files; nothing else is touched
DeleteAccount(a) ==
  /\ NoneRunning
  /\ a \in accounts
  /\ accounts' = accounts \ {a}
  /\ settings' = [settings EXCEPT ![a] = FreshSettings]
  /\ messages' = [messages EXCEPT ![a] = <<>>]
  /\ groups' = [groups EXCEPT ![a] = <<>>]
  /\ users' = [users EXCEPT ![a] = <<>>]
  /\ stats' = [stats EXCEPT ![a] = <<>>]
  /\ UNCHANGED <<clockVars, sets, got, poolVars, loopVars, nowCalls, task, statLog, frontVars>>

\* SessionManager(account_path) on its way through initialize_from_db with
\* `session_file = user_data[2]`
NewSession(a, file) ==
  [acct |-> a, file |-> file, client |-> "connecting", evicted |-> FALSE]

\* mutant of CacheHit: any entry of the cache is returned
CacheHitAnyEntry(c) == c # 0

\* `if account_id in self.active_sessions:` and `session_manager.is_connected()`
CacheHit(c) == c # 0 /\ IsConnected(c)

\* get_or_create_session up to its await: the cached session if it is
\* connected, else a new SessionManager that starts initialize_from_db.
\* fileOk: Path(session_file).exists().
GetSession(t, fileOk) ==
  /\ task[t].pc = "get_session"
  /\ LET a == task[t].acct
         c == cache[a]
         n == Len(sessions) + 1
     IN  IF CacheHit(c)
         THEN /\ task' = [task EXCEPT ![t].pc = "acquired", ![t].sess = c]
              /\ sessions' = sessions
         ELSE IF IsEmpty(GetUser(users[a])) \/ ~fileOk
         THEN /\ task' = [task EXCEPT ![t].pc = "acquired", ![t].sess = 0]
              /\ sessions' = sessions
         ELSE /\ n <= MaxSessions
              /\ sessions' = Append(sessions, NewSession(a, GetUser(users[a])[1].file))
              /\ task' = [task EXCEPT ![t].pc = "connecting", ![t].sess = n]
  /\ UNCHANGED <<clockVars, accounts, repoVars, sets, got, cache, loopVars, nowCalls, statLog, frontVars>>

\* initialize_from_db returns: True with the client connected and authorized
\* (the object is then cached), or False with self.client = None.
ConnectDone(t, ok) ==
  /\ NoneRunning
  /\ task[t].pc = "connecting"
  /\ LET a == task[t].acct
         n == task[t].sess
     IN  IF ok
         THEN /\ sessions' = [sessions EXCEPT ![n].client = "connected"]
              /\ cache' = [cache EXCEPT ![a] = n]
              /\ task' = [task EXCEPT ![t].pc = "acquired"]
         ELSE /\ sessions' = [sessions EXCEPT ![n].client = "None"]
              /\ cache' = cache
              /\ task' = [task EXCEPT ![t].pc = "acquired", ![t].sess = 0]
  /\ UNCHANGED <<clockVars, accounts, repoVars, sets, got, loopVars, nowCalls, statLog, frontVars>>

\* mutant of SessionUnusable: no caller checks what it got
SessionUnusableUnchecked(mode, i) == FALSE

\* mutant of SessionUnusable: send_now goes on without its session check
SessionUnusableSchedOnly(mode, i) == mode = "sched" /\ (i = 0 \/ ~IsConnected(i))

\* process_account: `if not session_manager or not session_manager.is_connected()`
\* send_now:        `if not session_manager`
SessionUnusable(mode, i) ==
  IF mode = "sched" THEN i = 0 \/ ~IsConnected(i) ELSE i = 0

\* after get_or_create_session: the session check and the read of send_delay
Acquired(t) ==
  /\ task[t].pc = "acquired" /\ task[t].mode \in {"sched", "now"}
  /\ LET a == task[t].acct
         d == GetSetting(settings[a], "send_delay", "2")
     IN  task' = [task EXCEPT ![t] =
           IF SessionUnusable(task[t].mode, task[t].sess)
           THEN EndPass(t, Failure("Session not available"))
           ELSE IF ~IsInt(d) THEN EndPass(t, Raised("ValueError"))
           ELSE [task[t] EXCEPT !.pc = "next_msg", !.delay = IntOf(d), !.mi = 0]]
  /\ UNCHANGED <<clockVars, accounts, repoVars, sets, got, poolVars, loopVars, nowCalls, statLog, frontVars>>

\* send_now's return value (auto_sender.py:167-173)
SendNowResult(r) ==
  [success |-> TRUE, message |-> "", successful |-> r.totS, failed |-> r.totF,
   messages_count |-> Len(r.msgs), groups_count |-> Len(r.grps), raised |-> FALSE]

\* `for message in ...`: the next message, or the end of the pass; send_now
\* ends with its single update_stats
NextMsg(t) ==
  /\ task[t].pc = "next_msg"
  /\ LET r == task[t]
         a == r.acct
     IN  IF r.mi < Len(r.msgs)
         THEN /\ task' = [task EXCEPT ![t].pc = "deliver", ![t].mi = r.mi + 1]
              /\ UNCHANGED <<stats, statLog, frontVars>>
         ELSE IF r.mode = "sched"
         THEN /\ task' = [task EXCEPT ![t] = EndPass(t, NoResult)]
              /\ UNCHANGED <<stats, statLog, frontVars>>
         ELSE /\ stats' = IF a \in accounts
                   THEN [stats EXCEPT ![a] =
                           UpdateStats(@, Today, r.totS + r.totF, r.totS, r.totF)]
                   ELSE stats
              /\ statLog' = [statLog EXCEPT ![a] =
                   LogStats(@, Today, r.totS + r.totF, r.totS, r.totF)]
              /\ task' = [task EXCEPT ![t] = EndPass(t, SendNowResult(r))]
  /\ UNCHANGED <<clockVars, accounts, settings, messages, groups, users, sets, got,
                 poolVars, loopVars, nowCalls, frontVars>>

\* ------------------------------------------- SessionManager delivery loop
\* mutant of ItemAt: the list is gone through from its end
ItemAtReversed(q, i) == q[Len(q) + 1 - i]

\* `for message in pending_messages` / `for group in groups`: the item of
\* the i-th iteration
ItemAt(q, i) == q[i]

\* send_to_multiple_groups entry: `if not self.client: return 0, len(groups)`.
\* fanned lists the messages of the pass handed to send_to_multiple_groups,
\* sentTo the groups of the call handed to send_message, as history.
Deliver(t) ==
  /\ task[t].pc = "deliver"
  /\ LET r == task[t] IN
     task' = [task EXCEPT ![t] =
       IF Client(r.sess) = "None"
       THEN [r EXCEPT !.pc = "finish_msg", !.succ = 0, !.fail = Len(r.grps),
                      !.gi = 0, !.outs = [i \in 1..Len(r.grps) |-> "skip"],
                      !.fanned = Append(r.fanned, ItemAt(r.msgs, r.mi))]
       ELSE [r EXCEPT !.pc = "next_group", !.succ = 0, !.fail = 0,
                      !.gi = 0, !.outs = <<>>,
                      !.fanned = Append(r.fanned, ItemAt(r.msgs, r.mi))]]
  /\ UNCHANGED <<clockVars, accounts, repoVars, sets, got, poolVars, loopVars, nowCalls, statLog, frontVars>>

\* mutant of AfterAttempt: the next group follows at once
AfterAttemptNoPacing(delay) == "next_group"

\* `if delay > 0: await asyncio.sleep(delay)`, then the next group
AfterAttempt(delay) == IF delay > 0 THEN "pacing" ELSE "next_group"

\* `for group in groups`: SessionManager.send_message for the next group
\* (`if not self.client: return False`, else await client.send_message),
\* or the return of the counts.  slept is the time the task has spent in
\* asyncio.sleep since this attempt, wait the seconds of its throttle signal.
NextGroup(t) ==
  /\ task[t].pc = "next_group"
  /\ LET r == task[t] IN
     task' = [task EXCEPT ![t] =
       IF r.gi < Len(r.grps)
       THEN IF Client(r.sess) = "None"
            THEN [r EXCEPT !.gi = r.gi + 1, !.fail = r.fail + 1,
                           !.outs = Append(r.outs, "skip"),
                           !.sentTo = Append(r.sentTo, ItemAt(r.grps, r.gi + 1)),
                           !.wait = 0, !.slept = 0,
                           !.pc = AfterAttempt(r.delay)]
            ELSE [r EXCEPT !.gi = r.gi + 1, !.wait = 0, !.slept = 0,
                           !.sentTo = Append(r.sentTo, ItemAt(r.grps, r.gi + 1)),
                           !.pc = "sending"]
       ELSE [r EXCEPT !.pc = "finish_msg"]]
  /\ UNCHANGED <<clockVars, accounts, repoVars, sets, got, poolVars, loopVars, nowCalls, statLog, frontVars>>

\* mutant of CountOutcome: a throttled send is not counted
CountOutcomeFloodFree(o) ==
  IF o = "ok" THEN <<1, 0>> ELSE IF o = "flood" THEN <<0, 0>> ELSE <<0, 1>>

\* what one transport outcome adds to (successful, failed) in
\* send_to_multiple_groups; a FloodWaitError is counted after its sleep
CountOutcome(o) == IF o = "ok" THEN <<1, 0>> ELSE <<0, 1>>

\* mutant of AfterSend: an error of one send ends the delivery call
AfterSendAborting(o, delay) ==
  IF o = "flood" THEN "backoff"
  ELSE IF o = "ok" THEN AfterAttempt(delay) ELSE "finish_msg"

\* where SessionManager.send_message goes on after the transport's answer
AfterSend(o, delay) == IF o = "flood" THEN "backoff" ELSE AfterAttempt(delay)

\* client.send_message returns or raises
SendDone(t, o) ==
  /\ NoneRunning
  /\ task[t].pc = "sending"
  /\ o = "ok" => IsConnected(task[t].sess)
  /\ LET r == task[t]
         c == IF o = "flood" THEN <<0, 0>> ELSE CountOutcome(o)
     IN  \E s \in IF o = "flood" THEN FloodWaits ELSE {0} :
           task' = [task EXCEPT ![t] =
             [r EXCEPT !.succ = r.succ + c[1], !.fail = r.fail + c[2],
                       !.outs = Append(r.outs, o),
                       !.okTot = r.okTot + (IF o = "ok" THEN 1 ELSE 0),
                       !.wait = s,
                       !.pc = AfterSend(o, r.delay)]]
  /\ UNCHANGED <<clockVars, accounts, repoVars, sets, got, poolVars, loopVars, nowCalls, statLog, frontVars>>

\* asyncio.sleep(e.seconds) returns: send_message returns False
BackoffDone(t) ==
  /\ NoneRunning
  /\ task[t].pc = "backoff"
  /\ LET r == task[t]
         c == CountOutcome("flood")
     IN  task' = [task EXCEPT ![t] =
           [r EXCEPT !.succ = r.succ + c[1], !.fail = r.fail + c[2],
                     !.slept = r.slept + r.wait,
                     !.pc = AfterAttempt(r.delay)]]
  /\ UNCHANGED <<clockVars, accounts, repoVars, sets, got, poolVars, loopVars, nowCalls, statLog, frontVars>>

\* asyncio.sleep(delay) returns
PacingDone(t) ==
  /\ NoneRunning
  /\ task[t].pc = "pacing"
  /\ task' = [task EXCEPT ![t].pc = "next_group",
                          ![t].slept = task[t].slept + task[t].delay]
  /\ UNCHANGED <<clockVars, accounts, repoVars, sets, got, poolVars, loopVars, nowCalls, statLog, frontVars>>

\* the message table after update_message_after_send(id): every outcome of
\* the jitter, or the table unchanged when the call failed
Rescheduled(ms, st, id) ==
  IF RescheduleJitter(st) = {}
  THEN {ms}
  ELSE {UpdateMessageAfterSend(ms, id, LocalNow, UtcNow, r) : r \in RescheduleJitter(st)}

\* the locals of a delivery call that has returned are dead
Forget(r) == [r EXCEPT !.succ = 0, !.fail = 0, !.gi = 0, !.outs = <<>>,
                       !.wait = 0, !.slept = 0, !.sentTo = <<>>]

\* mutant of AddTotal: the totals hold the counts of the last message only
AddTotalLast(total, x) == x

\* `total_successful += successful`
AddTotal(total, x) == total + x

\* mutant of Reschedules: send_now handles a message as send_message does
ReschedulesAlways(mode) == TRUE

\* only AutoSender.send_message calls update_message_after_send and
\* update_stats per message; send_now's loop body has neither
Reschedules(mode) == mode = "sched"

\* After send_to_multiple_groups returned.  AutoSender.send_message:
\* update_message_after_send, update_stats.  send_now: add to the totals.
FinishMsg(t) ==
  /\ task[t].pc = "finish_msg"
  /\ LET r == task[t]
         a == r.acct
     IN  IF Reschedules(r.mode)
         THEN /\ \E ms \in Rescheduled(messages[a], settings[a], r.msgs[r.mi]) :
                   messages' = [messages EXCEPT ![a] = ms]
              /\ stats' = [stats EXCEPT ![a] =
                   UpdateStats(@, Today, r.succ + r.fail, r.succ, r.fail)]
              /\ statLog' = [statLog EXCEPT ![a] =
                   LogStats(@, Today, r.succ + r.fail, r.succ, r.fail)]
              /\ task' = [task EXCEPT ![t] = Forget([r EXCEPT !.pc = "next_msg"])]
         ELSE /\ task' = [task EXCEPT ![t] = Forget(
                   [r EXCEPT !.pc = "next_msg",
                             !.totS = AddTotal(r.totS, r.succ),
                             !.totF = AddTotal(r.totF, r.fail)])]
              /\ UNCHANGED <<messages, stats, statLog, frontVars>>
  /\ UNCHANGED <<clockVars, accounts, settings, groups, users, sets, got,
                 poolVars, loopVars, nowCalls, frontVars>>

\* ------------------------------------------------------------- shutdown
\* TelegramBot.stop: auto_sender.stop(), then cleanup_all_sessions() takes
\* list(self.active_sessions.keys()); held lists the objects cached at that
\* moment, as history
StopBot(q) ==
  /\ NoneRunning
  /\ task["shut"].pc = "idle"
  /\ q \in Orders({a \in Acct : cache[a] # 0})
  /\ running' = FALSE
  /\ task' = [task EXCEPT !["shut"].pc = "cleanup_next", !["shut"].accts = q,
                          !["shut"].ai = 0, !["shut"].mode = "all",
                          !["shut"].held = [i \in 1..Len(q) |-> cache[q[i]]]]
  /\ UNCHANGED <<clockVars, accounts, repoVars, sets, got, poolVars, sweeps, nowCalls, statLog, frontVars>>

\* cleanup_session(a) called on its own, for any account, also again after
\* an earlier call has returned
CleanupCall(a) ==
  /\ NoneRunning
  /\ \/ task["shut"].pc = "idle"
     \/ task["shut"].pc = "ended" /\ task["shut"].mode = "one"
  /\ a \in accounts
  /\ task' = [task EXCEPT !["shut"] =
       [IdleTask("cleanup_next") EXCEPT !.accts = <<a>>, !.mode = "one",
                                        !.held = <<cache[a]>>]]
  /\ UNCHANGED <<clockVars, accounts, repoVars, sets, got, poolVars, loopVars, nowCalls, statLog, frontVars>>

\* mutant of Evict: the cache is emptied
EvictAll(c, a) == [b \in Acct |-> 0]

\* `del self.active_sessions[account_id]`
Evict(c, a) == [c EXCEPT ![a] = 0]

\* history: the object the del took out of the cache
Evicted(ss, i) == [ss EXCEPT ![i].evicted = TRUE]

\* cleanup_session for the next key: `if account_id in self.active_sessions`,
\* SessionManager.disconnect up to its await (`if self.client`), the del.
\* While client.disconnect() is awaited the client may still report
\* is_connected() or report it no longer ("closing").  The record of the
\* task that has ended keeps the keys it went through, as history.
CleanupNext ==
  /\ task["shut"].pc = "cleanup_next"
  /\ LET r == task["shut"] IN
     IF r.ai < Len(r.accts)
     THEN LET a == r.accts[r.ai + 1] IN
          IF cache[a] # 0 /\ Client(cache[a]) # "None"
          THEN /\ task' = [task EXCEPT !["shut"].pc = "disconnecting",
                                       !["shut"].acct = a, !["shut"].sess = cache[a],
                                       !["shut"].ai = r.ai + 1]
               /\ cache' = cache
               /\ \E c \in {Client(cache[a]), "closing"} :
                    sessions' = [sessions EXCEPT ![cache[a]].client = c]
          ELSE /\ task' = [task EXCEPT !["shut"].ai = r.ai + 1]
               /\ cache' = IF cache[a] # 0 THEN Evict(cache, a) ELSE cache
               /\ sessions' = IF cache[a] # 0 THEN Evicted(sessions, cache[a]) ELSE sessions
     ELSE /\ task' = [task EXCEPT !["shut"] =
                 [IdleTask("ended") EXCEPT !.accts = r.accts, !.ai = r.ai,
                                           !.held = r.held, !.errs = r.errs,
                                           !.mode = r.mode]]
          /\ cache' = cache
          /\ sessions' = sessions
  /\ UNCHANGED <<clockVars, accounts, repoVars, sets, got, loopVars, nowCalls, statLog, frontVars>>

\* mutant of ClientAfterDisconnect: no `finally`
ClientAfterDisconnectNoFinally(c, ok) == IF ok THEN "None" ELSE c

\* SessionManager.disconnect: `finally: self.client = None`
ClientAfterDisconnect(c, ok) == "None"

\* client.disconnect() returns or raises (caught and logged in
\* SessionManager.disconnect; errs counts it), then cleanup_session deletes
\* the key (KeyError when the key is gone)
DisconnectDone(ok) ==
  /\ NoneRunning
  /\ task["shut"].pc = "disconnecting"
  /\ LET r == task["shut"] IN
     /\ sessions' = LET ss == [sessions EXCEPT ![r.sess].client =
                                ClientAfterDisconnect(@, ok)]
                    IN  IF cache[r.acct] # 0 THEN Evicted(ss, cache[r.acct]) ELSE ss
     /\ IF cache[r.acct] # 0
        THEN /\ cache' = Evict(cache, r.acct)
             /\ task' = [task EXCEPT !["shut"].pc = "cleanup_next",
                                     !["shut"].acct = "", !["shut"].sess = 0,
                                     !["shut"].errs = @ + (IF ok THEN 0 ELSE 1)]
        ELSE /\ cache' = cache
             /\ task' = [task EXCEPT !["shut"] = IdleTask("raised")]
  /\ UNCHANGED <<clockVars, accounts, repoVars, sets, got, loopVars, nowCalls, statLog, frontVars>>

\* ------------------------------------------------ front end and clock
\* group links are numbered; the platform-native id of link l is TgIdOf(l)
Links  == 1 .. MaxGroups
Phones == {"p1", "p2"}
TgIdOf(link) == 100 + link
SessionFileOf(phone) == phone

\* Database.save_user: INSERT OR REPLACE on the UNIQUE phone
SaveUser(us, phone, file) ==
  Append(SelectSeq(us, LAMBDA u : u.phone # phone),
         [phone |-> phone, file |-> file, active |-> TRUE])

\* process_code / process_password on a successful sign-in
Login(a, phone) ==
  /\ NoneRunning
  /\ a \in accounts
  /\ settings' = [settings EXCEPT ![a] = InitDatabase(@)]
  /\ users' = [users EXCEPT ![a] = SaveUser(@, phone, SessionFileOf(phone))]
  /\ UNCHANGED <<clockVars, accounts, messages, groups, stats, sets, got, poolVars,
                 loopVars, nowCalls, task, statLog, frontVars>>

\* mutant of AddGroupRow: INSERT OR REPLACE on the UNIQUE link
AddGroupRowReplacing(gs, link, tgid) ==
  Append(SelectSeq(gs, LAMBDA g : g.link # link), NewGroup(gs, link, tgid))

\* Database.add_group: IntegrityError on a stored link
AddGroupRow(gs, link, tgid) ==
  IF \E i \in 1..Len(gs) : gs[i].link = link THEN gs
  ELSE Append(gs, NewGroup(gs, link, tgid))

\* process_group once join_group has succeeded: db.add_group
AddGroup(a, link) ==
  /\ NoneRunning
  /\ a \in accounts
  /\ link <= Len(groups[a]) + 1
  /\ settings' = [settings EXCEPT ![a] = InitDatabase(@)]
  /\ groups' = [groups EXCEPT ![a] = AddGroupRow(@, link, TgIdOf(link))]
  /\ UNCHANGED <<clockVars, accounts, messages, stats, users, sets, got, poolVars,
                 loopVars, nowCalls, task, statLog, frontVars>>

\* the message table after add_message(text, mn, mx): every outcome of the
\* jitter, or unchanged when randint raised
MessageAdded(ms, mn, mx, local) ==
  IF RandInt(mn, mx) = {} THEN {ms}
  ELSE {Append(ms, NewMessage(ms, mn, mx, local, r)) : r \in RandInt(mn, mx)}

\* process_message: add_message with the account's min_interval / max_interval
AddMessage(a) ==
  /\ NoneRunning
  /\ a \in accounts
  /\ Len(messages[a]) < MaxMsgs
  /\ LET st == InitDatabase(settings[a])
         mn == GetSetting(st, "min_interval", "60")
         mx == GetSetting(st, "max_interval", "90")
     IN  /\ settings' = [settings EXCEPT ![a] = st]
         /\ IsInt(mn) /\ IsInt(mx)
         /\ \E ms \in MessageAdded(messages[a], IntOf(mn), IntOf(mx), LocalNow) :
              messages' = [messages EXCEPT ![a] = ms]
  /\ UNCHANGED <<clockVars, accounts, groups, stats, users, sets, got, poolVars,
                 loopVars, nowCalls, task, statLog, frontVars>>

\* Database.set_setting on a freshly opened Database
SetSetting(a, k, v) ==
  /\ NoneRunning
  /\ a \in accounts
  /\ sets < MaxSets
  /\ sets' = sets + 1
  /\ settings' = [settings EXCEPT ![a] = SetSettingRow(InitDatabase(@), k, v)]
  /\ UNCHANGED <<clockVars, accounts, messages, groups, stats, users, got, poolVars,
                 loopVars, nowCalls, task, statLog, frontVars>>

\* a caller opens the repository and reads one key: Database(account_path)
\* seeds the defaults, get_setting(k, d) SELECTs the row
GetSettingCall(a, k, d) ==
  /\ NoneRunning
  /\ a \in accounts
  /\ Len(got) < MaxGets
  /\ LET st == InitDatabase(settings[a]) IN
       /\ settings' = [settings EXCEPT ![a] = st]
       /\ got' = Append(got, [acct |-> a, key |-> k, default |-> d,
                              value |-> GetSetting(st, k, d)])
  /\ UNCHANGED <<clockVars, accounts, messages, groups, stats, users, sets, poolVars,
                 loopVars, nowCalls, task, statLog, frontVars>>

\* ------------------------------------------------ conversations
\* the texts a sender may send
Texts == {"/cancel", "g1", "g2"} \cup Phones

\* message_handler: `event.text.startswith('/')`
IsCommand(text) == text = "/cancel"

\* process_phone: re.match(r'^\+\d{10,15}$', phone)
IsPhone(text) == text \in Phones

\* the group link a text stands for, 0 if it is none
LinkOf(text) == CASE text = "g1" -> 1 [] text = "g2" -> 2 [] OTHER -> 0

LoginStates == {"awaiting_phone", "awaiting_code", "awaiting_password"}

\* what sign_in may answer: signed in, SessionPasswordNeededError,
\* PhoneCodeInvalidError, PhoneCodeExpiredError, another exception
CodeAnswers     == {"ok", "password", "invalid", "expired", "error"}
\* sign_in(password=...): signed in or an exception
PasswordAnswers == {"ok", "error"}

\* the message sign_in_with_code / sign_in_with_password return
SignInMessage(o) ==
  CASE o = "ok"       -> "Success"
    [] o = "password" -> "PASSWORD_REQUIRED"
    [] o = "invalid"  -> "Invalid code"
    [] o = "expired"  -> "Code expired"
    [] OTHER          -> "str(e)"

\* mutant of IsSuccess: the answer of sign_in is not looked at
IsSuccessAlways(o) == TRUE

\* `if success:` of process_code / process_password
IsSuccess(o) == o = "ok"

\* del self.user_states[user_id]
DelState(us, u) == [us EXCEPT ![u] = NoState]

\* a handler of the front end returns (raised: it ended with an exception,
\* which message_handler logs)
EndHandler(t, reply, raised) ==
  [IdleTask("idle") EXCEPT !.sender = task[t].sender, !.acct = task[t].acct,
                           !.phone = task[t].phone, !.answer = task[t].answer,
                           !.join = task[t].join,
                           !.reply = reply,
                           !.result = IF raised THEN Raised(reply) ELSE NoResult]

\* message_handler drops a text that starts with '/', handle_message one of
\* a sender without an entry in user_states
MessageDropped(u, text) ==
  /\ NoneRunning
  /\ IsCommand(text) \/ userStates[u] = NoState
  /\ UNCHANGED vars

\* handle_message in state awaiting_phone: process_phone up to its await
ProcessPhone(t, u, text) ==
  /\ NoneRunning
  /\ task[t].pc = "idle"
  /\ ~IsCommand(text)
  /\ userStates[u].state = "awaiting_phone"
  /\ acted' = [sender |-> u, acct |-> userStates[u].acct, action |-> "message"]
  /\ LET r == [IdleTask("idle") EXCEPT !.sender = u, !.acct = userStates[u].acct,
                                       !.mode = "login"]
     IN  task' = [task EXCEPT ![t] =
           IF IsPhone(text)
           THEN [r EXCEPT !.pc = "code_request", !.phone = text]
           ELSE [r EXCEPT !.reply = "Invalid phone number"]]
  /\ UNCHANGED <<clockVars, accounts, repoVars, sets, got, poolVars, loopVars,
                 nowCalls, statLog, userStates>>

\* send_code_request returns.  ok: the entry of the sender is updated to
\* awaiting_code with the phone (KeyError without an entry, caught by
\* process_phone); else the error is replied.  Without the account
\* directory SessionManager(account_path) has raised.
CodeRequestDone(t, ok) ==
  /\ NoneRunning
  /\ task[t].pc = "code_request"
  /\ ok => task[t].acct \in accounts
  /\ LET u == task[t].sender IN
     IF ok /\ userStates[u] # NoState
     THEN /\ userStates' = [userStates EXCEPT ![u].state = "awaiting_code",
                                               ![u].phone = task[t].phone]
          /\ task' = [task EXCEPT ![t] = EndHandler(t, "Code sent", FALSE)]
     ELSE /\ userStates' = userStates
          /\ task' = [task EXCEPT ![t] = EndHandler(t, "Error", FALSE)]
  /\ UNCHANGED <<clockVars, accounts, repoVars, sets, got, poolVars, loopVars,
                 nowCalls, statLog, acted>>

\* handle_message in state awaiting_code / awaiting_password: process_code
\* / process_password up to the await of the sign-in.  The entry written by
\* another flow has no phone: KeyError.
ProcessSignIn(t, u, text) ==
  /\ NoneRunning
  /\ task[t].pc = "idle"
  /\ ~IsCommand(text)
  /\ userStates[u].state \in {"awaiting_code", "awaiting_password"}
  /\ acted' = [sender |-> u, acct |-> userStates[u].acct,
               action |-> "message"]
  /\ LET r == [IdleTask("idle") EXCEPT !.sender = u, !.acct = userStates[u].acct,
                                       !.mode = "login",
                                       !.phone = userStates[u].phone]
     IN  task' = [task EXCEPT ![t] =
           IF userStates[u].phone = ""
           THEN [r EXCEPT !.reply = "KeyError", !.result = Raised("KeyError")]
           ELSE [r EXCEPT !.pc = IF userStates[u].state = "awaiting_code"
                                 THEN "signing" ELSE "signing_pw"]]
  /\ UNCHANGED <<clockVars, accounts, repoVars, sets, got, poolVars, loopVars,
                 nowCalls, statLog, userStates>>

\* sign_in_with_code / sign_in_with_password returns (o: the platform's
\* answer).  Success: Database(account_path), save_user(phone, session
\* file), del user_states[user_id], reply.  PASSWORD_REQUIRED (code only):
\* the entry goes to awaiting_password.  Else the message is replied.
SignInDone(t, o) ==
  /\ NoneRunning
  /\ task[t].pc \in {"signing", "signing_pw"}
  /\ o \in (IF task[t].pc = "signing" THEN CodeAnswers ELSE PasswordAnswers)
  /\ LET u    == task[t].sender
         a    == task[t].acct
         done == [task[t] EXCEPT !.answer = o]
     IN  IF IsSuccess(o)
         THEN IF a \notin accounts
              THEN /\ task' = [task EXCEPT ![t] =
                        [EndHandler(t, "sqlite3.Error", TRUE) EXCEPT !.answer = o]]
                   /\ UNCHANGED <<settings, users, userStates>>
              ELSE /\ settings' = [settings EXCEPT ![a] = InitDatabase(@)]
                   /\ users' = [users EXCEPT ![a] =
                        SaveUser(@, task[t].phone, SessionFileOf(task[t].phone))]
                   /\ userStates' = DelState(userStates, u)
                   /\ task' = [task EXCEPT ![t] =
                        IF userStates[u] = NoState
                        THEN [EndHandler(t, "KeyError", TRUE) EXCEPT !.answer = o]
                        ELSE [EndHandler(t, "Login Successful", FALSE) EXCEPT !.answer = o]]
         ELSE IF task[t].pc = "signing" /\ o = "password"
         THEN /\ UNCHANGED <<settings, users>>
              /\ IF userStates[u] = NoState
                 THEN /\ userStates' = userStates
                      /\ task' = [task EXCEPT ![t] =
                           [EndHandler(t, "KeyError", TRUE) EXCEPT !.answer = o]]
                 ELSE /\ userStates' = [userStates EXCEPT ![u].state = "awaiting_password"]
                      /\ task' = [task EXCEPT ![t] =
                           [EndHandler(t, "2FA Password Required", FALSE) EXCEPT !.answer = o]]
         ELSE /\ UNCHANGED <<settings, users, userStates>>
              /\ task' = [task EXCEPT ![t] =
                   [EndHandler(t, SignInMessage(o), FALSE) EXCEPT !.answer = o]]
  /\ UNCHANGED <<clockVars, accounts, messages, groups, stats, sets, got, poolVars,
                 loopVars, nowCalls, statLog, acted>>

\* mutant of CanAccessAccount: no check
CanAccessAccountAnyone(u, a) == TRUE

\* AccountManager.can_access_account
CanAccessAccount(u, a) == u = Admin \/ a = GetUserAccountId(u)

\* handle_callback for data "login:<a>": the access check, then start_login
StartLogin(u, a) ==
  /\ NoneRunning
  /\ IF CanAccessAccount(u, a)
     THEN /\ userStates' = [userStates EXCEPT ![u] =
               [state |-> "awaiting_phone", acct |-> a, phone |-> ""]]
          /\ acted' = [sender |-> u, acct |-> a, action |-> "callback"]
     ELSE UNCHANGED frontVars
  /\ UNCHANGED <<clockVars, accounts, repoVars, sets, got, poolVars, loopVars,
                 nowCalls, task, statLog>>

\* handle_callback for data "<act>:<a>" with act one of select, settings,
\* stats: the access check, then show_account_menu / show_settings /
\* show_stats, which open the repository and read (sqlite3.Error without
\* the account directory, caught by callback_handler)
MenuActions == {"select", "settings", "stats"}
ShowMenu(u, act, a) ==
  /\ NoneRunning
  /\ act \in MenuActions
  /\ IF CanAccessAccount(u, a)
     THEN /\ acted' = [sender |-> u, acct |-> a, action |-> "callback"]
          /\ settings' = IF a \in accounts
                         THEN [settings EXCEPT ![a] = InitDatabase(@)]
                         ELSE settings
     ELSE UNCHANGED <<acted, settings>>
  /\ UNCHANGED <<clockVars, accounts, messages, groups, stats, users, sets, got,
                 poolVars, loopVars, nowCalls, task, statLog, userStates>>

\* handle_callback for a data with ':' that no branch routes (view_groups,
\* view_msgs, change_time, toggle_auto): the access check, then
\* "Unknown action"
UnknownAction(u, a) ==
  /\ NoneRunning
  /\ UNCHANGED vars

\* handle_callback for "add_group:<a>" / "add_msg:<a>": the access check,
\* then start_add_group / start_add_message: the entry is written when the
\* account has a credential record (and, for a message, an active group)
StartAdd(u, act, a) ==
  /\ NoneRunning
  /\ act \in {"add_group", "add_msg"}
  /\ IF CanAccessAccount(u, a)
     THEN /\ acted' = [sender |-> u, acct |-> a, action |-> "callback"]
          /\ settings' = IF a \in accounts
                         THEN [settings EXCEPT ![a] = InitDatabase(@)]
                         ELSE settings
          /\ userStates' =
               IF /\ a \in accounts
                  /\ ~IsEmpty(GetUser(users[a]))
                  /\ act = "add_msg" => ~NoGroups(GetGroups(groups[a]))
               THEN [userStates EXCEPT ![u] =
                      [state |-> IF act = "add_group" THEN "awaiting_group"
                                 ELSE "awaiting_message",
                       acct |-> a, phone |-> ""]]
               ELSE userStates
     ELSE UNCHANGED <<acted, settings, userStates>>
  /\ UNCHANGED <<clockVars, accounts, messages, groups, stats, users, sets, got,
                 poolVars, loopVars, nowCalls, task, statLog>>

\* handle_callback for "send_now:<a>": the access check, then
\* handle_send_now calls send_now(a)
SendNowFrom(t, u, a) ==
  /\ NoneRunning
  /\ t \in UiTasks /\ task[t].pc = "idle"
  /\ nowCalls < MaxCallbackSends
  /\ IF CanAccessAccount(u, a)
     THEN /\ acted' = [sender |-> u, acct |-> a, action |-> "callback"]
          /\ nowCalls' = nowCalls + 1
          /\ task' = [task EXCEPT ![t] =
               [IdleTask("begin") EXCEPT !.acct = a, !.mode = "now", !.sender = u]]
     ELSE UNCHANGED <<acted, nowCalls, task>>
  /\ UNCHANGED <<clockVars, accounts, repoVars, sets, got, poolVars, loopVars,
                 statLog, userStates>>

\* handle_callback for "create_user_account" of a sender who is not the
\* admin: create_account(user_<id>).  (The admin's create_account makes an
\* account with a new name, admin_<timestamp>, outside Acct.)
CreateAccount(u) ==
  /\ NoneRunning
  /\ u # Admin
  /\ accounts' = accounts \cup {GetUserAccountId(u)}
  /\ acted' = [sender |-> u, acct |-> GetUserAccountId(u), action |-> "callback"]
  /\ UNCHANGED <<clockVars, repoVars, sets, got, poolVars, loopVars, nowCalls,
                 task, statLog, userStates>>

\* process_group ends with `del self.user_states[user_id]`; a call that
\* did not come from a sender's conversation has none to delete
AfterProcessGroup(us, u) == IF u = "" THEN us ELSE DelState(us, u)

\* process_group called for account a with a link: Database(account_path),
\* then get_or_create_session
ProcessGroupCall(t, a, link) ==
  /\ NoneRunning
  /\ t \in UiTasks /\ task[t].pc = "idle"
  /\ a \in accounts
  /\ settings' = [settings EXCEPT ![a] = InitDatabase(@)]
  /\ task' = [task EXCEPT ![t] =
       [IdleTask("get_session") EXCEPT !.acct = a, !.mode = "group",
                                       !.join = [NoJoin EXCEPT !.link = link]]]
  /\ UNCHANGED <<clockVars, accounts, messages, groups, stats, users, sets, got,
                 poolVars, loopVars, nowCalls, statLog, frontVars>>

\* after get_or_create_session: `if not session_manager` replies and
\* returns; join_group returns (False, "Client not initialized") at once
\* when the session has no client, else it awaits the platform
JoinBegin(t) ==
  /\ task[t].pc = "acquired" /\ task[t].mode = "group"
  /\ task' = [task EXCEPT ![t] =
       IF task[t].sess = 0 \/ Client(task[t].sess) = "None"
       THEN EndHandler(t, "Session not available", FALSE)
       ELSE [task[t] EXCEPT !.pc = "joining"]]
  /\ userStates' = IF task[t].sess = 0 \/ Client(task[t].sess) = "None"
                   THEN AfterProcessGroup(userStates, task[t].sender)
                   ELSE userStates
  /\ UNCHANGED <<clockVars, accounts, repoVars, sets, got, poolVars, loopVars,
                 nowCalls, statLog, acted>>

\* join_group returns.  ok: (True, group_info) with the id of the entity,
\* and db.add_group(link, title, group_info['id'], members_count) follows;
\* else (False, error_msg) and no repository call
JoinDone(t, ok) ==
  /\ NoneRunning
  /\ task[t].pc = "joining"
  /\ LET a    == task[t].acct
         link == task[t].join.link
         id   == TgIdOf(link)
         gs   == AddGroupRow(groups[a], link, id)
     IN  IF ok
         THEN /\ link \in Links
              /\ groups' = [groups EXCEPT ![a] = gs]
              /\ task' = [task EXCEPT ![t] =
                   [EndHandler(t, "Group Added", FALSE) EXCEPT !.join =
                      [link |-> link, joined |-> TRUE, tgid |-> id,
                       added |-> gs # groups[a]]]]
         ELSE /\ groups' = groups
              /\ task' = [task EXCEPT ![t] =
                   [EndHandler(t, "Error", FALSE) EXCEPT !.join =
                      [NoJoin EXCEPT !.link = link]]]
  /\ userStates' = AfterProcessGroup(userStates, task[t].sender)
  /\ UNCHANGED <<clockVars, accounts, settings, messages, stats, users, sets, got,
                 poolVars, loopVars, nowCalls, statLog, acted>>

\* handle_message in state awaiting_group: process_group with the entry's
\* account (sqlite3.Error of Database(account_path) without the directory)
ProcessGroup(t, u, text) ==
  /\ ~IsCommand(text)
  /\ userStates[u].state = "awaiting_group"
  /\ acted' = [sender |-> u, acct |-> userStates[u].acct, action |-> "message"]
  /\ NoneRunning
  /\ task[t].pc = "idle"
  /\ IF userStates[u].acct \in accounts
     THEN /\ settings' = [settings EXCEPT ![userStates[u].acct] = InitDatabase(@)]
          /\ task' = [task EXCEPT ![t] =
               [IdleTask("get_session") EXCEPT
                  !.acct = userStates[u].acct, !.mode = "group", !.sender = u,
                  !.join = [NoJoin EXCEPT !.link = LinkOf(text)]]]
     ELSE /\ settings' = settings
          /\ task' = [task EXCEPT ![t] =
               [IdleTask("idle") EXCEPT !.sender = u, !.reply = "sqlite3.Error",
                                        !.result = Raised("sqlite3.Error")]]
  /\ UNCHANGED <<clockVars, accounts, messages, groups, stats, users, sets, got,
                 poolVars, loopVars, nowCalls, statLog, userStates>>

\* handle_message in state awaiting_message: process_message with the
\* entry's account: int(get_setting(...)) twice, add_message, reply,
\* del user_states[user_id]; an exception (sqlite3.Error of the open,
\* ValueError of int) leaves the entry
ProcessMessage(t, u, text) ==
  /\ NoneRunning
  /\ task[t].pc = "idle"
  /\ ~IsCommand(text)
  /\ userStates[u].state = "awaiting_message"
  /\ acted' = [sender |-> u, acct |-> userStates[u].acct, action |-> "message"]
  /\ LET a  == userStates[u].acct
         st == InitDatabase(settings[a])
         mn == GetSetting(st, "min_interval", "60")
         mx == GetSetting(st, "max_interval", "90")
         r  == [IdleTask("idle") EXCEPT !.sender = u, !.acct = a]
     IN  IF a \notin accounts
         THEN /\ task' = [task EXCEPT ![t] =
                   [r EXCEPT !.reply = "sqlite3.Error", !.result = Raised("sqlite3.Error")]]
              /\ UNCHANGED <<settings, messages, userStates>>
         ELSE IF ~(IsInt(mn) /\ IsInt(mx))
         THEN /\ settings' = [settings EXCEPT ![a] = st]
              /\ task' = [task EXCEPT ![t] =
                   [r EXCEPT !.reply = "ValueError", !.result = Raised("ValueError")]]
              /\ UNCHANGED <<messages, userStates>>
         ELSE /\ Len(messages[a]) < MaxMsgs
              /\ settings' = [settings EXCEPT ![a] = st]
              /\ \E ms \in MessageAdded(messages[a], IntOf(mn), IntOf(mx), LocalNow) :
                   /\ messages' = [messages EXCEPT ![a] = ms]
                   /\ task' = [task EXCEPT ![t] =
                        [r EXCEPT !.reply = IF ms = messages[a]
                                            THEN "Error adding message"
                                            ELSE "Message Added"]]
              /\ userStates' = DelState(userStates, u)
  /\ UNCHANGED <<clockVars, accounts, groups, stats, users, sets, got, poolVars,
                 loopVars, nowCalls, statLog>>

\* time passes
Tick ==
  /\ NoneRunning
  /\ ticks < MaxTicks
  /\ ticks' = ticks + 1
  /\ now' = now + ClockStep
  /\ UNCHANGED <<tz, accounts, repoVars, sets, got, poolVars, loopVars, nowCalls, task, statLog, frontVars>>

\* ------------------------------------------------------- initial states
\* The engine is started on repositories the front end has filled before:
\* the family below is every repository that Login, AddGroup, AddMessage and
\* at most MaxSets SetSetting calls leave behind, with each message either
\* due at StartNow or due one clock step later.

\* settings after init_database and at most n set_setting calls
RECURSIVE SettingsAfter(_)
SettingsAfter(n) ==
  IF n = 0 THEN {InitDatabase(FreshSettings)}
  ELSE SettingsAfter(n - 1) \cup
       {SetSettingRow(st, k, v) :
          st \in SettingsAfter(n - 1),
          k \in SettingKeys, v \in UNION {SettingInputs(kk) : kk \in SettingKeys}}
SettingsFamily ==
  {st \in SettingsAfter(MaxSets) : \A k \in SettingKeys :
     st[k] = DefaultSettings[k] \/ st[k] \in SettingInputs(k)}

\* n groups added in turn
RECURSIVE GroupsAfter(_)
GroupsAfter(n) ==
  IF n = 0 THEN <<>>
  ELSE AddGroupRow(GroupsAfter(n - 1), n, TgIdOf(n))

\* Database.update_group_status: UPDATE groups SET is_active = ? WHERE id = ?
UpdateGroupStatus(gs, id, act) ==
  [i \in 1..Len(gs) |-> IF gs[i].id = id THEN [gs[i] EXCEPT !.active = act] ELSE gs[i]]

\* group tables: n groups added, the first one possibly deactivated afterwards
GroupsFamily ==
  {GroupsAfter(n) : n \in 0..MaxGroups}
  \cup {UpdateGroupStatus(GroupsAfter(n), 1, FALSE) : n \in 1..MaxGroups}

\* message tables of n rows; each row was added with the default bounds and
\* the largest jitter, either so long ago that it is due at StartNow, or at
\* StartNow
RECURSIVE MessagesAfter(_)
MessagesAfter(n) ==
  LET mn == IntOf(DefaultSettings["min_interval"])
      mx == IntOf(DefaultSettings["max_interval"])
  IN  IF n = 0 THEN {<<>>}
      ELSE {Append(ms, NewMessage(ms, mn, mx, t, mx)) :
              ms \in MessagesAfter(n - 1), t \in {StartNow - mx, StartNow}}

\* the repositories an account may start with: never opened, or filled
RepoFamily ==
  {[settings |-> FreshSettings, messages |-> <<>>, groups |-> <<>>, users |-> <<>>]}
  \cup
  {[settings |-> st, messages |-> ms, groups |-> gs, users |-> us] :
     st \in SettingsFamily,
     ms \in UNION {MessagesAfter(n) : n \in 0..MaxMsgs},
     gs \in GroupsFamily,
     us \in {<<>>, SaveUser(<<>>, "p1", SessionFileOf("p1"))}}

\* what an account directory that was never opened holds
NoRepo ==
  [settings |-> FreshSettings, messages |-> <<>>, groups |-> <<>>, users |-> <<>>]

\* the repositories are as the function repo gives them
InitRepos(repo) ==
  /\ settings = [a \in Acct |-> repo[a].settings]
  /\ messages = [a \in Acct |-> repo[a].messages]
  /\ groups = [a \in Acct |-> repo[a].groups]
  /\ users = [a \in Acct |-> repo[a].users]

InitEngineAt(z) ==
  /\ now = StartNow /\ tz = z /\ ticks = 0
  /\ stats = [a \in Acct |-> <<>>]
  /\ sets = 0 /\ got = <<>>
  /\ sessions = <<>>
  /\ cache = [a \in Acct |-> 0]
  /\ running = FALSE /\ sweeps = 0 /\ nowCalls = 0
  /\ task = [t \in Tasks |-> IdleTask(IF t \in SchedTasks THEN "off" ELSE "idle")]
  /\ statLog = [a \in Acct |-> NoCalls]
  /\ userStates = [u \in Senders |-> NoState]
  /\ acted = NoAct

\* the host's clock is set to UTC
InitEngine == InitEngineAt(0)

\* ------------------------------------------------------- specifications
Pass(t) ==
  \/ PassBegin(t)
  \/ \E f \in BOOLEAN : GetSession(t, f)
  \/ \E ok \in BOOLEAN : ConnectDone(t, ok)
  \/ Acquired(t)
  \/ NextMsg(t)
  \/ Deliver(t)
  \/ NextGroup(t)
  \/ \E o \in Outcomes : SendDone(t, o)
  \/ BackoffDone(t)
  \/ PacingDone(t)
  \/ FinishMsg(t)

Loop == Start \/ LoopTop \/ NextAcct \/ Wake

Shutdown ==
  \/ \E q \in Orders({a \in Acct : cache[a] # 0}) : StopBot(q)
  \/ CleanupNext
  \/ \E ok \in BOOLEAN : DisconnectDone(ok)

\* Spec: one account, the scheduler loop and the clock.
Init ==
  /\ InitEngine
  /\ accounts = {"a1"}
  /\ \E r \in RepoFamily :
       InitRepos([a \in Acct |-> IF a = "a1" THEN r ELSE NoRepo])

Next == Loop \/ Pass("sched") \/ Tick

Spec == Init /\ [][Next]_vars

\* SpecNow: one account, immediate passes from the front end, the shutdown
\* of the bot and the clock.  send_now does not read the interval settings;
\* they have their defaults.
InitNow ==
  /\ InitEngine
  /\ accounts = {"a1"}
  /\ \E r \in RepoFamily :
       /\ \A k \in {"min_interval", "max_interval"} :
            r.settings[k] \in {NoRow, DefaultSettings[k]}
       /\ InitRepos([a \in Acct |-> IF a = "a1" THEN r ELSE NoRepo])

NextNow ==
  \/ \E a \in Acct : SendNowCall("ui1", a)
  \/ Pass("ui1")
  \/ Shutdown
  \/ Tick

SpecNow == InitNow /\ [][NextNow]_vars

\* SpecRace: one logged-in account with one group and one message; the
\* scheduler loop runs while the front end calls send_now.
InitRace ==
  /\ InitEngine
  /\ accounts = {"a1"}
  /\ \E r \in RepoFamily :
       /\ ~IsEmpty(r.users) /\ r.groups = GroupsAfter(1) /\ Len(r.messages) = 1
       /\ InitRepos([a \in Acct |-> IF a = "a1" THEN r ELSE NoRepo])

NextRace ==
  \/ Loop
  \/ Pass("sched")
  \/ \E a \in Acct : SendNowCall("ui1", a)
  \/ Pass("ui1")

SpecRace == InitRace /\ [][NextRace]_vars

\* SpecSweep: two logged-in accounts, each with one group and one message;
\* the scheduler loop alone, with storage errors.
InitSweep ==
  /\ InitEngine
  /\ accounts = Acct
  /\ \E repo \in [Acct -> RepoFamily] :
       /\ \A a \in Acct : /\ ~IsEmpty(repo[a].users)
                          /\ repo[a].groups = GroupsAfter(1) /\ Len(repo[a].messages) = 1
       /\ InitRepos(repo)

NextSweep == Loop \/ Pass("sched") \/ OpenFails("sched")

SpecSweep == InitSweep /\ [][NextSweep]_vars

\* SpecSettings: the settings table of one account under set_setting and
\* get_setting calls with any key and default.
InitSettings ==
  /\ InitEngine
  /\ accounts = {"a1"}
  /\ \E r \in RepoFamily :
       /\ IsEmpty(r.users) /\ IsEmpty(r.groups) /\ IsEmpty(r.messages)
       /\ InitRepos([a \in Acct |-> IF a = "a1" THEN r ELSE NoRepo])

NextSettings ==
  \/ \E a \in Acct, k \in Keys : \E v \in SettingInputs(k) : SetSetting(a, k, v)
  \/ \E a \in Acct, k \in Keys, d \in Defaults : GetSettingCall(a, k, d)

SpecSettings == InitSettings /\ [][NextSettings]_vars

\* SpecLoop: the scheduler loop of one logged-in account with one group,
\* after start() has set running, with storage and enumeration errors and
\* the shutdown of the bot.  The event loop resumes every task that can go on.
InitLoop ==
  /\ now = StartNow /\ tz = 0 /\ ticks = 0
  /\ accounts = {"a1"}
  /\ stats = [a \in Acct |-> <<>>]
  /\ sets = 0 /\ got = <<>>
  /\ sessions = <<>>
  /\ cache = [a \in Acct |-> 0]
  /\ running = TRUE /\ sweeps = 0 /\ nowCalls = 0
  /\ task = [t \in Tasks |-> IdleTask(IF t = "sched" THEN "loop_top"
                                       ELSE IF t = "sched2" THEN "off" ELSE "idle")]
  /\ statLog = [a \in Acct |-> NoCalls]
  /\ userStates = [u \in Senders |-> NoState]
  /\ acted = NoAct
  /\ \E r \in RepoFamily :
       /\ ~IsEmpty(r.users) /\ r.groups = GroupsAfter(1)
       /\ InitRepos([a \in Acct |-> IF a = "a1" THEN r ELSE NoRepo])

SchedStep ==
  \/ LoopTop \/ NextAcct \/ Wake \/ EnumFails
  \/ Pass("sched") \/ OpenFails("sched")

ShutStep == CleanupNext \/ \E ok \in BOOLEAN : DisconnectDone(ok)

NextLoop ==
  \/ SchedStep
  \/ \E q \in Orders({a \in Acct : cache[a] # 0}) : StopBot(q)
  \/ ShutStep

SpecLoop == InitLoop /\ [][NextLoop]_vars /\ WF_vars(SchedStep) /\ WF_vars(ShutStep)

\* SpecLive: one logged-in account with auto_send on, an active group and a
\* message; the scheduler loop and the clock.  The session file exists and
\* the establishment of a session succeeds; the event loop resumes the
\* scheduler task whenever it can go on.
InitLive ==
  /\ InitEngine
  /\ accounts = {"a1"}
  /\ \E r \in RepoFamily :
       /\ ~IsEmpty(r.users) /\ r.groups = GroupsAfter(1) /\ ~IsEmpty(r.messages)
       /\ r.settings["auto_send"] = "1"
       /\ InitRepos([a \in Acct |-> IF a = "a1" THEN r ELSE NoRepo])

PassOk(t) ==
  \/ PassBegin(t)
  \/ GetSession(t, TRUE)
  \/ ConnectDone(t, TRUE)
  \/ Acquired(t)
  \/ NextMsg(t)
  \/ Deliver(t)
  \/ NextGroup(t)
  \/ \E o \in Outcomes : SendDone(t, o)
  \/ BackoffDone(t)
  \/ PacingDone(t)
  \/ FinishMsg(t)

NextLive == Loop \/ PassOk("sched") \/ Tick

SpecLive == InitLive /\ [][NextLive]_vars /\ WF_vars(Loop \/ PassOk("sched"))

\* SpecPool: two logged-in accounts, each with one group and one message;
\* immediate passes from the front end, the shutdown of the bot and single
\* cleanup_session calls.
InitPool ==
  /\ InitEngine
  /\ accounts = Acct
  /\ \E repo \in [Acct -> RepoFamily] :
       /\ \A a \in Acct :
            /\ ~IsEmpty(repo[a].users)
            /\ repo[a].groups = GroupsAfter(1) /\ Len(repo[a].messages) = 1
            /\ \A k \in {"min_interval", "max_interval"} :
                 repo[a].settings[k] \in {NoRow, DefaultSettings[k]}
       /\ InitRepos(repo)

NextPool ==
  \/ \E a \in Acct : SendNowCall("ui1", a)
  \/ Pass("ui1")
  \/ \E a \in Acct : CleanupCall(a)
  \/ Shutdown

SpecPool == InitPool /\ [][NextPool]_vars

\* SpecDue: one logged-in account with one group and default settings, whose
\* message table holds any rows: active or not, next_send NULL, past, now,
\* one clock step ahead or further ahead.  The scheduler loop and the clock.
DueTimes == {Null, StartNow - ClockStep, StartNow, StartNow + ClockStep,
             StartNow + 2 * ClockStep}

RECURSIVE AnyMessages(_)
AnyMessages(n) ==
  IF n = 0 THEN {<<>>}
  ELSE {Append(ms, [NewMessage(ms, 60, 90, 0, 0) EXCEPT !.active = act,
                                                        !.next_send = t]) :
          ms \in AnyMessages(n - 1), act \in BOOLEAN, t \in DueTimes}

InitDue ==
  /\ InitEngine
  /\ accounts = {"a1"}
  /\ \E ms \in UNION {AnyMessages(n) : n \in 1..MaxMsgs} :
       InitRepos([a \in Acct |->
         IF a = "a1"
         THEN [settings |-> InitDatabase(FreshSettings), messages |-> ms,
               groups |-> GroupsAfter(1),
               users |-> SaveUser(<<>>, "p1", SessionFileOf("p1"))]
         ELSE NoRepo])

NextDue == Loop \/ Pass("sched") \/ Tick

SpecDue == InitDue /\ [][NextDue]_vars

\* SpecClock: one logged-in account with auto_send on and one group, on a
\* host in any of the time zones; the front end adds messages, the scheduler
\* loop runs and time passes.
InitClock ==
  /\ \E z \in TimeZones : InitEngineAt(z)
  /\ accounts = {"a1"}
  /\ \E r \in RepoFamily :
       /\ ~IsEmpty(r.users) /\ r.groups = GroupsAfter(1) /\ Len(r.messages) <= 1
       /\ r.settings["auto_send"] = "1"
       /\ InitRepos([a \in Acct |-> IF a = "a1" THEN r ELSE NoRepo])

NextClock == AddMessage("a1") \/ Loop \/ Pass("sched") \/ Tick

SpecClock == InitClock /\ [][NextClock]_vars

\* SpecBounds: one account whose repository is new (never opened, or opened
\* and seeded); set_setting and add_message calls of the front end while
\* time passes.
InitBounds ==
  /\ InitEngine
  /\ accounts = {"a1"}
  /\ \E st \in {FreshSettings, InitDatabase(FreshSettings)} :
       InitRepos([a \in Acct |->
         IF a = "a1"
         THEN [settings |-> st, messages |-> <<>>, groups |-> <<>>, users |-> <<>>]
         ELSE NoRepo])

NextBounds ==
  \/ \E a \in Acct, k \in SettingKeys : \E v \in SettingInputs(k) : SetSetting(a, k, v)
  \/ \E a \in Acct : AddMessage(a)
  \/ Tick

SpecBounds == InitBounds /\ [][NextBounds]_vars

\* SpecLogin: one account with one group and one message, logged in or not;
\* logins with any phone number and immediate passes from the front end.
InitLogin ==
  /\ InitEngine
  /\ accounts = {"a1"}
  /\ \E r \in RepoFamily :
       /\ r.groups = GroupsAfter(1) /\ Len(r.messages) = 1
       /\ \A k \in SettingKeys : r.settings[k] = DefaultSettings[k]
       /\ InitRepos([a \in Acct |-> IF a = "a1" THEN r ELSE NoRepo])

NextLogin ==
  \/ \E p \in Phones : Login("a1", p)
  \/ \E a \in Acct : SendNowCall("ui1", a)
  \/ Pass("ui1")

SpecLogin == InitLogin /\ [][NextLogin]_vars

\* SpecStorage: one account, immediate passes from the front end while
\* opening the repository may fail, and the clock.
NextStorage ==
  \/ \E a \in Acct : SendNowCall("ui1", a)
  \/ Pass("ui1")
  \/ OpenFails("ui1")
  \/ Tick

SpecStorage == InitNow /\ [][NextStorage]_vars

\* ================================================================ claims
\* process_account has returned to the sweep loop: the step ends the pass
PassReturned == task'["sched"].pc = "next_acct"
Due(a) == GetPendingMessages(messages[a], UtcNow)
HasUser(a) == ~IsEmpty(GetUser(users[a]))
TodayStats(a) == GetTodayStats(stats[a], Today)

\* C4: when the stored auto_send setting is "0", the whole scheduled pass is
\* the one step that opens the repository and returns: it changes no table
\* of the repository and touches neither a session nor the session cache.
C4_AutoSendOffIsNoOp ==
  [][\A a \in Acct :
       (PassBegin("sched") /\ task["sched"].acct = a /\ settings[a]["auto_send"] = "0")
       => (PassReturned /\ UNCHANGED <<repoVars, poolVars, statLog, frontVars>>)]_vars

\* a pass has just returned on an account with auto_send "0" that is logged
\* in and has due messages and active groups
C4_Witness ==
  /\ task["sched"].pc = "next_acct" /\ task["sched"].ai = 1
  /\ settings["a1"]["auto_send"] = "0"
  /\ HasUser("a1") /\ ~IsEmpty(Due("a1")) /\ ~IsEmpty(GetGroups(groups["a1"]))

\* C5: with no active group, a scheduled pass returns at once and leaves the
\* message table and the statistics as they were, so the same messages are
\* due afterwards.
C5_NoGroupsKeepsMessages ==
  [][\A a \in Acct :
       (PassBegin("sched") /\ task["sched"].acct = a /\ IsEmpty(GetGroups(groups[a])))
       => (/\ PassReturned
           /\ UNCHANGED <<messages, stats, statLog, frontVars>>
           /\ GetPendingMessages(messages'[a], UtcNow') = Due(a))]_vars

\* a pass has just returned on a logged-in account with auto_send on, a due
\* message and a group table whose only row is inactive
C5_Witness ==
  /\ task["sched"].pc = "next_acct" /\ task["sched"].ai = 1
  /\ settings["a1"]["auto_send"] = "1"
  /\ HasUser("a1") /\ ~IsEmpty(Due("a1"))
  /\ ~IsEmpty(groups["a1"]) /\ IsEmpty(GetGroups(groups["a1"]))

\* the step in which AutoSender.send_message handles the outcome of the
\* fan-out of message id to the groups of account a
Rescheduling(a, id) ==
  /\ FinishMsg("sched")
  /\ task["sched"].acct = a
  /\ task["sched"].msgs[task["sched"].mi] = id

Row(ms, id) == SelectSeq(ms, LAMBDA m : m.id = id)[1]

\* C6 (as claimed): after the fan-out of a message, whatever the settings,
\* its next_send lies in [now + min_interval, now + max_interval] of the
\* account's current settings.
C6_NextSendInCurrentBounds ==
  [][\A a \in Acct, id \in 1..MaxMsgs :
       Rescheduling(a, id)
       => LET mn == IntOf(GetSetting(settings[a], "min_interval", "60"))
              mx == IntOf(GetSetting(settings[a], "max_interval", "90"))
          IN  Row(messages'[a], id).next_send \in (LocalNow + mn) .. (LocalNow + mx)]_vars

\* C7 (as claimed): after the fan-out of a due message to G groups the message
\* is rescheduled (total_sent + 1, last_sent set) and today's statistics grow
\* by exactly (G, successCount, failCount), the counts being those of the
\* transport's answers, also when every send failed.
C7_RescheduledAndCounted ==
  [][\A a \in Acct, id \in 1..MaxMsgs :
       Rescheduling(a, id)
       => LET r  == task["sched"]
              G  == Len(r.grps)
              ok == Len(SelectSeq(r.outs, LAMBDA o : o = "ok"))
          IN  /\ Row(messages'[a], id).total_sent = Row(messages[a], id).total_sent + 1
              /\ Row(messages'[a], id).last_sent = UtcNow
              /\ GetTodayStats(stats'[a], Today).sent = TodayStats(a).sent + G
              /\ GetTodayStats(stats'[a], Today).ok = TodayStats(a).ok + ok
              /\ GetTodayStats(stats'[a], Today).fail = TodayStats(a).fail + (G - ok)
              /\ task'["sched"].pc = "next_msg"]_vars

\* C9: for every account and date, the statistics table holds no row when
\* update_stats was never called on that date and otherwise exactly one row,
\* which holds the sums of the arguments of all the calls.
C9_StatsAdditive ==
  \A a \in Acct, d \in Dates :
    LET rows == SelectSeq(stats[a], LAMBDA r : r.date = d)
        log  == statLog[a][d]
    IN  IF log.calls = 0 THEN Len(rows) = 0
        ELSE /\ Len(rows) = 1
             /\ rows[1].sent = log.sent /\ rows[1].ok = log.ok /\ rows[1].fail = log.fail

\* two calls on one date with different counts, and a call on another date
C9_Witness ==
  /\ statLog["a1"][0].calls >= 2
  /\ statLog["a1"][1].calls >= 1
  /\ statLog["a1"][0].ok >= 1 /\ statLog["a1"][0].fail >= 1

\* C8: a delivery call counts every group exactly once, whatever the
\* transport answers: while it runs, the groups handled so far are all
\* counted, and when it returns successCount + failCount = N, one outcome per
\* group in the groups' order, successCount the number of sends that
\* succeeded; every group got a send attempt unless the session's client was
\* taken away by a shutdown.
C8_DeliverCountsEveryGroup ==
  \A t \in Tasks :
    LET r  == task[t]
        ok == Len(SelectSeq(r.outs, LAMBDA o : o = "ok"))
    IN  /\ r.pc \in {"next_group", "pacing"}
           => (r.succ + r.fail = r.gi /\ Len(r.outs) = r.gi /\ r.gi <= Len(r.grps))
        /\ r.pc = "finish_msg"
           => /\ r.succ + r.fail = Len(r.grps)
              /\ Len(r.outs) = Len(r.grps)
              /\ r.succ = ok
              /\ Client(r.sess) # "None" => \A i \in 1..Len(r.outs) : r.outs[i] \in Outcomes

\* a delivery to two groups has returned; the first send had a permanent
\* error, the second succeeded
C8_Witness ==
  \E t \in Tasks :
    /\ task[t].pc = "finish_msg"
    /\ task[t].outs = <<"perm", "ok">>
    /\ task[t].succ = 1 /\ task[t].fail = 1

\* the step in which send_now(a) reads the repository, the one in which it
\* has its session, and the one in which it returns after the last message
NowBegins(t, a)   == PassBegin(t) /\ task[t].mode = "now" /\ task[t].acct = a
NowAcquired(t, a) == Acquired(t) /\ task[t].mode = "now" /\ task[t].acct = a
NowReturns(t, a) ==
  /\ NextMsg(t) /\ task[t].mode = "now" /\ task[t].acct = a
  /\ task[t].mi = Len(task[t].msgs)

\* C10: send_now on an account with M >= 1 active messages and G >= 1 active
\* groups goes on to the session; with a session obtained it sends; and it
\* then returns success with messages_count = M, groups_count = G,
\* successful + failed = M * G, successful the number of sends that
\* succeeded, today's statistics having grown by exactly
\* (successful + failed, successful, failed).
C10_SendNowResult ==
  [][\A t \in UiTasks, a \in Acct :
       LET M   == Len(GetMessages(messages[a]))
           G   == Len(GetGroups(groups[a]))
           res == task'[t].result
           new == GetTodayStats(stats'[a], Today)
       IN  /\ (NowBegins(t, a) /\ M >= 1 /\ G >= 1)
              => (task'[t].pc = "get_session" /\ Len(task'[t].msgs) = M
                  /\ Len(task'[t].grps) = G)
           /\ (NowAcquired(t, a) /\ task[t].sess # 0)
              => task'[t].pc = "next_msg"
           /\ NowReturns(t, a)
              => /\ task'[t].pc = "idle"
                 /\ res.success /\ ~res.raised
                 /\ res.messages_count = M /\ res.groups_count = G
                 /\ M >= 1 /\ G >= 1
                 /\ res.successful + res.failed = M * G
                 /\ res.successful = task[t].okTot
                 /\ new.sent = TodayStats(a).sent + res.successful + res.failed
                 /\ new.ok = TodayStats(a).ok + res.successful
                 /\ new.fail = TodayStats(a).fail + res.failed]_vars

\* send_now has returned for one message and two groups with one send
\* succeeded and one failed, and today's statistics are (2, 1, 1)
C10_Witness ==
  /\ task["ui1"].pc = "idle"
  /\ task["ui1"].result.success
  /\ task["ui1"].result.messages_count = 1 /\ task["ui1"].result.groups_count = 2
  /\ task["ui1"].result.successful = 1 /\ task["ui1"].result.failed = 1
  /\ TodayStats("a1") = [sent |-> 2, ok |-> 1, fail |-> 1]

\* a delivery call (send_to_multiple_groups) of task t is in progress
InDelivery(t) == task[t].pc \in {"next_group", "sending", "backoff", "pacing"}

\* C1 (as claimed): in no reachable state are two delivery calls for the same
\* account in progress at once.
C1_NoInterleavedDelivery ==
  \A t1, t2 \in Tasks :
    (t1 # t2 /\ InDelivery(t1) /\ InDelivery(t2)) => task[t1].acct # task[t2].acct

\* the session objects of account a that hold a connected client
LiveSessions(a) ==
  {i \in 1..Len(sessions) : sessions[i].acct = a /\ IsConnected(i)}

\* C3 (as claimed): at most one live session object exists per account at
\* any time.
C3_OneLiveSessionPerAccount ==
  \A a \in Acct : Cardinality(LiveSessions(a)) <= 1

\* the scheduled pass of account a is suspended in a throttle backoff, a
\* pacing delay or the establishment of a session
Suspended(a) ==
  /\ task["sched"].acct = a
  /\ task["sched"].pc \in {"backoff", "pacing", "connecting"}

\* account b is still to be processed in the sweep that is under way
ToProcess(b) ==
  \E i \in (task["sched"].ai + 1) .. Len(task["sched"].accts) :
    task["sched"].accts[i] = b

\* the step that begins the scheduled processing of account b
BeginsAccount(b) == NextAcct /\ task'["sched"].acct = b

\* C2 (as claimed): while the delivery of one account is suspended, the
\* scheduled processing of every other account of the sweep can proceed.
C2_OtherAccountsProceed ==
  \A a, b \in Acct :
    (a # b /\ Suspended(a) /\ ToProcess(b)) => ENABLED BeginsAccount(b)

\* the step in which send_now(a) returns a failure
NowFails(t, a) ==
  /\ task[t].mode = "now" /\ task[t].acct = a
  /\ task'[t].pc = "idle" /\ ~task'[t].result.success

\* C11: send_now takes every active message, due or not; it returns
\* 'No active messages' when there is none, otherwise 'No active groups' when
\* no group is active, otherwise 'Session not available' when
\* get_or_create_session gave none; a failure is returned before any send and
\* leaves the messages, the groups and the statistics as they were.
C11_SendNowFailures ==
  [][\A t \in UiTasks, a \in Acct :
       LET M   == Len(GetMessages(messages[a]))
           G   == Len(GetGroups(groups[a]))
           res == task'[t].result
       IN  /\ NowBegins(t, a)
              => /\ M = 0 => (task'[t].pc = "idle" /\ res = Failure("No active messages"))
                 /\ (M >= 1 /\ G = 0)
                    => (task'[t].pc = "idle" /\ res = Failure("No active groups"))
                 /\ (M >= 1 /\ G >= 1)
                    => /\ task'[t].pc = "get_session"
                       /\ task'[t].msgs = [i \in 1..Len(messages[a]) |-> messages[a][i].id]
           /\ (NowAcquired(t, a) /\ task[t].sess = 0)
              => (task'[t].pc = "idle" /\ res = Failure("Session not available"))
           /\ NowFails(t, a)
              => /\ task[t].pc \in {"begin", "acquired"}
                 /\ task[t].mi = 0 /\ task[t].okTot = 0
                 /\ UNCHANGED <<messages, groups, stats, statLog, frontVars>>]_vars

\* send_now has returned 'Session not available' on an account that is
\* logged in and has an active group and a message that is not due
C11_Witness ==
  /\ task["ui1"].pc = "idle"
  /\ task["ui1"].result = Failure("Session not available")
  /\ HasUser("a1") /\ ~IsEmpty(GetGroups(groups["a1"]))
  /\ IsEmpty(Due("a1")) /\ ~IsEmpty(messages["a1"])

\* C12: no step of send_now changes a message, a group or the credential
\* record, and none changes a stored setting (opening the repository only
\* seeds missing defaults); the statistics change in the returning step
\* alone, by one update_stats call.
C12_SendNowDoesNotReschedule ==
  [][\A t \in UiTasks, a \in Acct :
       (Pass(t) /\ task[t].mode = "now" /\ task[t].acct = a)
       => /\ UNCHANGED <<messages, groups, users, frontVars>>
          /\ settings' = [settings EXCEPT ![a] = InitDatabase(@)]
          /\ IF NowReturns(t, a)
             THEN /\ statLog'[a][Today].calls = statLog[a][Today].calls + 1
                  /\ \A b \in Acct \ {a} : stats'[b] = stats[b]
             ELSE UNCHANGED <<stats, statLog, frontVars>>]_vars

\* send_now has returned success on an account whose message was due: the
\* message is still due and was never marked as sent, the statistics have
\* their row for today
C12_Witness ==
  /\ task["ui1"].pc = "idle" /\ task["ui1"].result.success
  /\ ~IsEmpty(Due("a1"))
  /\ \A i \in 1..Len(messages["a1"]) :
       messages["a1"][i].total_sent = 0 /\ messages["a1"][i].last_sent = Null
  /\ TodayStats("a1").sent >= 1

\* C13: a get_setting call for a key that has no row returns the caller's
\* default and leaves the table without a row for the key and with every
\* stored value as it was, so that each later call returns its own default.
C13_GetSettingDefault ==
  [][\A a \in Acct, k \in Keys, d \in Defaults :
       (GetSettingCall(a, k, d) /\ InitDatabase(settings[a])[k] = NoRow)
       => /\ got'[Len(got')].value = d
          /\ settings'[a][k] = NoRow
          /\ settings'[a] = InitDatabase(settings[a])]_vars

\* two calls for the same absent key with different defaults: each returned
\* its own default
C13_Witness ==
  /\ Len(got) = 2
  /\ got[1] = [acct |-> "a1", key |-> "missing_key", default |-> "fallback",
               value |-> "fallback"]
  /\ got[2] = [acct |-> "a1", key |-> "missing_key", default |-> "other",
               value |-> "other"]
  /\ settings["a1"]["missing_key"] = NoRow

\* the step in which the for loop of process_all_accounts is left
SweepEnds == task["sched"].pc # "sleep" /\ task'["sched"].pc = "sleep"

\* C14: in a sweep process_account is called for the enumerated accounts in
\* their order, once each: the calls made so far are the first accounts of
\* the enumeration, a call that raises leaves the sweep where it was, and
\* the sweep ends only when every account has had its call.
C14_SweepCallsEveryAccount ==
  [][LET r == task["sched"] IN
     /\ r.pc \notin {"off", "loop_top", "sleep", "ended"}
        => r.calls = SubSeq(r.accts, 1, r.ai)
     /\ OpenFails("sched")
        => /\ task'["sched"].pc = "next_acct"
           /\ task'["sched"].accts = r.accts /\ task'["sched"].calls = r.calls
     /\ SweepEnds => r.calls = r.accts]_vars

\* process_account has been called for the second account of the sweep after
\* the call for the first one raised
C14_Witness ==
  /\ task["sched"].pc = "begin"
  /\ Len(task["sched"].accts) = 2 /\ task["sched"].calls = task["sched"].accts
  /\ task["sched"].errs = 1

\* stop() is called
Stops == \E q \in Orders({a \in Acct : cache[a] # 0}) : StopBot(q)

\* C15: once start() has set running, only stop() clears it; while it is set
\* the loop has not ended; an error in the enumeration or in the processing
\* of an account leaves the flag set and the sweep going; and after an error
\* in a sweep a later sweep starts unless stop() is called.
C15_OnlyStopEndsLoop ==
  /\ [][(running /\ ~running') => Stops]_vars
  /\ [](running => task["sched"].pc \notin {"off", "ended", "raised"})
  /\ [][(OpenFails("sched") \/ EnumFails)
         => (running' = running /\ task'["sched"].pc = "next_acct")]_vars
  /\ \A n \in 1 .. (MaxSweeps - 1) :
       (task["sched"].errs > 0 /\ sweeps = n) ~> (sweeps = n + 1 \/ ~running)

\* the second sweep is processing the account after an error in the first
\* sweep, and the scheduler is running
C15_Witness ==
  /\ running /\ sweeps = 2
  /\ task["sched"].pc = "begin" /\ task["sched"].errs >= 1

\* C16: stop() leaves the sweep in flight as it is; after stop() no sweep
\* starts; and the loop of start() ends.
C16_StopEndsLoop ==
  /\ [][Stops => (~running' /\ task'["sched"] = task["sched"])]_vars
  /\ [][~running => sweeps' = sweeps]_vars
  /\ [][(~running /\ LoopTop) => task'["sched"].pc = "ended"]_vars
  /\ (~running) ~> (task["sched"].pc = "ended")

\* stop() was called while the pass of the account was suspended in the
\* sweep; the pass has gone on, recorded its fan-out and returned
C16_Witness ==
  /\ ~running
  /\ task["sched"].pc = "next_acct" /\ task["sched"].ai = 1
  /\ statLog["a1"][Today].calls >= 1

\* C17: from the call of get_or_create_session to the return of a scheduled
\* pass that got no usable session, no step changes the repository; the pass
\* returns without a send, and the messages that were due are still due.
C17_NoSessionIsNoOp ==
  [][\A a \in Acct :
       LET r == task["sched"] IN
       /\ (Pass("sched") /\ r.acct = a /\ r.pc \in {"get_session", "connecting"})
          => UNCHANGED <<repoVars, statLog, frontVars>>
       /\ (Acquired("sched") /\ r.acct = a /\ (r.sess = 0 \/ ~IsConnected(r.sess)))
          => /\ PassReturned
             /\ r.mi = 0 /\ r.okTot = 0
             /\ UNCHANGED <<repoVars, statLog, frontVars>>
             /\ GetPendingMessages(messages'[a], UtcNow') = Due(a)
             /\ ~IsEmpty(Due(a))]_vars

\* a pass has just returned on a logged-in account with auto_send on, a due
\* message and an active group, after the establishment of its session failed
C17_Witness ==
  /\ task["sched"].pc = "next_acct" /\ task["sched"].ai = 1
  /\ settings["a1"]["auto_send"] = "1"
  /\ HasUser("a1") /\ ~IsEmpty(Due("a1")) /\ ~IsEmpty(GetGroups(groups["a1"]))
  /\ sessions = <<[NewSession("a1", SessionFileOf("p1")) EXCEPT !.client = "None"]>>
  /\ IsEmpty(stats["a1"])

\* no get_or_create_session call and no cleanup is under way
PoolQuiet ==
  /\ \A t \in Tasks : task[t].pc \notin {"get_session", "connecting"}
  /\ task["shut"].pc \notin {"cleanup_next", "disconnecting"}

\* C18 (as claimed): no get_or_create_session or cleanup call raises, and
\* once all of them have returned the cache entry of an account, if any, is
\* a connected session and no connected session of the account is outside
\* the cache.
C18_CacheAtomic ==
  /\ \A t \in Tasks : task[t].pc # "raised"
  /\ PoolQuiet
     => \A a \in Acct :
          /\ cache[a] # 0 => IsConnected(cache[a])
          /\ LiveSessions(a) \subseteq {cache[a]}

\* message id of account a is stored, active and due
IsDue(a, id) ==
  \E i \in 1..Len(messages[a]) :
    messages[a][i].id = id /\ IsPending(messages[a][i], UtcNow)

GetsSession(t) == task[t].pc = "get_session"
Establishes(t) == GetsSession(t) /\ task'[t].pc = "connecting"
ReturnsSession(t) ==
  /\ task[t].pc \in {"get_session", "connecting"}
  /\ task'[t].pc = "acquired"

\* C20: get_or_create_session returns the cached session, establishing
\* nothing, when the cached session is connected; otherwise, without a
\* credential record it returns none, and with one it either returns none or
\* establishes a new session of the account, which is cached exactly when the
\* establishment succeeds and is none otherwise; a session it returns is
\* connected and is the cached one of the account.
C20_GetOrCreateSession ==
  [][\A t \in Tasks :
       LET a == task[t].acct
           c == cache[a]
       IN  /\ (GetsSession(t) /\ task'[t] # task[t]) =>
                 /\ cache' = cache
                 /\ IF c # 0 /\ IsConnected(c)
                    THEN ReturnsSession(t) /\ task'[t].sess = c /\ sessions' = sessions
                    ELSE IF IsEmpty(GetUser(users[a]))
                    THEN ReturnsSession(t) /\ task'[t].sess = 0 /\ sessions' = sessions
                    ELSE \/ ReturnsSession(t) /\ task'[t].sess = 0 /\ sessions' = sessions
                         \/ /\ Establishes(t)
                            /\ sessions' = Append(sessions,
                                  NewSession(a, GetUser(users[a])[1].file))
                            /\ task'[t].sess = Len(sessions')
           /\ (task[t].pc = "connecting" /\ ReturnsSession(t)) =>
                 IF sessions'[task[t].sess].client = "connected"
                 THEN task'[t].sess = task[t].sess /\ cache' = [cache EXCEPT ![a] = task[t].sess]
                 ELSE task'[t].sess = 0 /\ cache' = cache
           /\ (ReturnsSession(t) /\ task'[t].sess # 0) =>
                 /\ sessions'[task'[t].sess].client = "connected"
                 /\ cache'[a] = task'[t].sess
                 /\ sessions'[task'[t].sess].acct = a]_vars

\* a second send_now has been handed the session the first one cached, and
\* no other session was established
C20_Witness ==
  /\ task["ui1"].pc = "acquired" /\ nowCalls = 2
  /\ task["ui1"].sess # 0 /\ task["ui1"].sess = cache[task["ui1"].acct]
  /\ Len(sessions) = 1

\* task t is inside send_to_multiple_groups, at the head of its for loop
AtNextGroup(t) == task[t].pc = "next_group" /\ task[t].gi < Len(task[t].grps)

\* C21 (as claimed): a delivery whose session cleanup has evicted issues no
\* transport send on it: every remaining group is counted as failed without
\* a send; and get_or_create_session never hands out an evicted session.
C21_NoSendAfterCleanup ==
  [][\A t \in Tasks \ {"shut"} :
       /\ (AtNextGroup(t) /\ sessions[task[t].sess].evicted /\ task'[t] # task[t]) =>
             /\ task'[t].pc # "sending"
             /\ task'[t].fail = task[t].fail + 1
       /\ (ReturnsSession(t) /\ task'[t].sess # 0) =>
             ~sessions'[task'[t].sess].evicted]_vars

\* the time `if delay > 0: await asyncio.sleep(delay)` takes at least
PacingOf(delay) == IF delay > 0 THEN delay ELSE 0

\* task t goes on to the attempt for its next group, after an earlier one
NextAttempt(t) == AtNextGroup(t) /\ task[t].gi >= 1 /\ task'[t] # task[t]

\* C22: a send that got a throttle signal of s seconds is counted as one
\* failure once its sleep is over and is not sent again; the attempt for the
\* next group begins only after sleeps of at least s plus the pacing delay.
C22_ThrottleBacksOff ==
  [][\A t \in Tasks \ {"shut"} :
       LET r == task[t] IN
       /\ (r.pc = "sending" /\ task'[t].pc = "backoff") =>
             /\ task'[t].wait \in FloodWaits
             /\ task'[t].succ = r.succ /\ task'[t].fail = r.fail
       /\ (r.pc = "backoff" /\ task'[t] # r) =>
             /\ task'[t].fail = r.fail + 1 /\ task'[t].succ = r.succ
             /\ task'[t].gi = r.gi
             /\ task'[t].pc \in {"pacing", "next_group"}
       /\ (NextAttempt(t) /\ r.outs[r.gi] = "flood") =>
             /\ r.slept >= r.wait + PacingOf(r.delay)
             /\ r.succ + r.fail = r.gi
             /\ task'[t].gi = r.gi + 1]_vars

\* the second group is about to be tried after a throttled first send, with
\* a pacing delay configured
C22_Witness ==
  /\ AtNextGroup("sched") /\ task["sched"].gi = 1
  /\ task["sched"].outs = <<"flood">> /\ task["sched"].fail = 1
  /\ task["sched"].delay > 0 /\ task["sched"].wait = 7
  /\ task["sched"].slept = 7 + task["sched"].delay

\* C23: the attempt for the next group of a delivery call begins only after
\* a sleep of at least the pacing delay, whatever the attempt before it gave.
C23_PacingBetweenAttempts ==
  [][\A t \in Tasks \ {"shut"} :
       NextAttempt(t) => task[t].slept >= PacingOf(task[t].delay)]_vars

\* the second group is about to be tried after a failed first send, with a
\* pacing delay configured
C23_Witness ==
  /\ AtNextGroup("sched") /\ task["sched"].gi = 1
  /\ task["sched"].outs = <<"exc">>
  /\ task["sched"].delay > 0 /\ task["sched"].slept = task["sched"].delay

\* C24: a pass takes its messages and groups in the order the repository
\* returns them; the k-th send_message call of a delivery call is for the
\* k-th group, the k-th delivery call of a pass for the k-th message, and a
\* delivery call ends (all its groups gone through, or none when it returned
\* at its entry) before the next one begins.
C24_RepositoryOrder ==
  [][\A t \in Tasks \ {"shut"} :
       LET r == task[t]
           a == r.acct
       IN  /\ (r.pc = "begin" /\ task'[t].pc = "get_session") =>
                 /\ task'[t].grps = TgIds(GetGroups(groups[a]))
                 /\ task'[t].msgs = Ids(IF r.mode = "sched"
                                        THEN GetPendingMessages(messages[a], UtcNow)
                                        ELSE GetMessages(messages[a]))
           /\ (AtNextGroup(t) /\ task'[t] # r) =>
                 task'[t].sentTo = SubSeq(r.grps, 1, r.gi + 1)
           /\ (r.pc = "deliver" /\ task'[t] # r) =>
                 /\ r.sentTo = <<>>
                 /\ task'[t].fanned = SubSeq(r.msgs, 1, r.mi)
           /\ (r.pc = "finish_msg" /\ task'[t] # r) =>
                 /\ r.sentTo \in {r.grps, <<>>}
                 /\ task'[t].sentTo = <<>>]_vars

\* the second of two due messages has gone to both groups
C24_Witness ==
  /\ task["sched"].pc = "finish_msg"
  /\ Len(task["sched"].msgs) = 2 /\ task["sched"].fanned = task["sched"].msgs
  /\ Len(task["sched"].grps) = 2 /\ task["sched"].sentTo = task["sched"].grps

\* cleanup_session(a) is called / returns
CleanupCalled(a) ==
  /\ task["shut"].pc = "cleanup_next"
  /\ task["shut"].ai < Len(task["shut"].accts)
  /\ task["shut"].accts[task["shut"].ai + 1] = a
  /\ task'["shut"] # task["shut"]
CleanupReturns(a) ==
  \/ CleanupCalled(a) /\ task'["shut"].pc # "disconnecting"
  \/ /\ task["shut"].pc = "disconnecting" /\ task["shut"].acct = a
     /\ task'["shut"] # task["shut"]

\* C25: cleanup_session of an account without a cache entry changes neither
\* the cache nor a session and does not raise; cleanup_session of an account
\* with a cache entry does not raise, and at its return the session it found
\* is not connected and the account has no cache entry; no step of it
\* changes the cache entry of another account.
C25_CleanupSession ==
  [][\A a \in Acct :
       /\ (CleanupCalled(a) /\ cache[a] = 0) =>
             /\ CleanupReturns(a)
             /\ cache' = cache /\ sessions' = sessions
       /\ (CleanupCalled(a) /\ cache[a] # 0 /\ ~CleanupReturns(a)) =>
             /\ task'["shut"].sess = cache[a]
             /\ cache' = cache
       /\ (CleanupCalled(a) /\ cache[a] # 0 /\ CleanupReturns(a)) =>
             /\ sessions'[cache[a]].client # "connected" /\ cache'[a] = 0
       /\ (CleanupReturns(a) /\ task["shut"].pc = "disconnecting") =>
             /\ sessions'[task["shut"].sess].client # "connected" /\ cache'[a] = 0
       /\ CleanupReturns(a) => task'["shut"].pc # "raised"
       /\ (CleanupCalled(a) \/ CleanupReturns(a)) =>
             \A b \in Acct \ {a} : cache'[b] = cache[b]]_vars

\* cleanup_session of a1 has returned a second time, having found no entry;
\* the session of the first call is disconnected and evicted, the entry of
\* the other account is there
C25_Witness ==
  /\ task["shut"].pc = "ended" /\ task["shut"].mode = "one"
  /\ task["shut"].accts = <<"a1">> /\ task["shut"].held = <<0>>
  /\ cache["a1"] = 0 /\ cache["a2"] # 0 /\ IsConnected(cache["a2"])
  /\ \E i \in 1..Len(sessions) :
       sessions[i].acct = "a1" /\ sessions[i].evicted /\ Client(i) = "None"

\* C26: once cleanup_all_sessions has returned, no session that was cached
\* when it was called is connected or cached, whether its disconnect failed
\* or not.
C26_CleanupAll ==
  (task["shut"].pc = "ended" /\ task["shut"].mode = "all") =>
    \A i \in 1..Len(task["shut"].held) :
      LET s == task["shut"].held[i] IN
      /\ ~IsConnected(s) /\ Client(s) = "None"
      /\ \A a \in Acct : cache[a] # s

\* cleanup_all_sessions has returned after two cached sessions, one of
\* whose disconnects failed
C26_Witness ==
  /\ task["shut"].pc = "ended" /\ task["shut"].mode = "all"
  /\ Len(task["shut"].held) = 2
  /\ task["shut"].errs = 1
  /\ \A i \in 1..2 : Client(task["shut"].held[i]) = "None"
  /\ \A a \in Acct : cache[a] = 0

\* the ids get_pending_messages has handed to the pass that goes on, none
\* for the pass that has returned at `if not pending_messages`
Returned(t) ==
  IF task'[t].pc = "get_session"
  THEN {task'[t].msgs[i] : i \in 1..Len(task'[t].msgs)}
  ELSE {}

\* C27: get_pending_messages, as the scheduled pass calls it, returns a row
\* exactly when the row is active and its next_send is set and not after
\* the present time of the database.
C27_DueExactly ==
  [][\A a \in Acct :
       (task["sched"].acct = a /\ PassBegin("sched")) =>
         \A i \in 1..Len(messages[a]) :
           LET m == messages[a][i] IN
           m.id \in Returned("sched")
             <=> (m.active /\ m.next_send # Null /\ m.next_send <= UtcNow)]_vars

\* a pass goes on with the second row alone, the first being past its
\* next_send but inactive
C27_Witness ==
  /\ task["sched"].pc = "get_session" /\ task["sched"].msgs = <<2>>
  /\ Len(messages["a1"]) = 2
  /\ ~messages["a1"][1].active /\ messages["a1"][1].next_send # Null
  /\ messages["a1"][1].next_send <= UtcNow

\* how far ahead dueness is looked at, minutes
Horizon == 480

\* row m, written now with bounds [mn, mx], is returned by
\* get_pending_messages at no time before now + mn and at every time from
\* now + mx on
DueInBounds(m, mn, mx) ==
  \A d \in 0..Horizon :
    /\ d < mn => ~IsPending(m, UtcNow + d)
    /\ d >= mx => IsPending(m, UtcNow + d)

\* C28 (as claimed): a message that add_message has stored with bounds
\* [min, max], or that update_message_after_send has rescheduled with the
\* bounds of the settings, is due at no time before min minutes from then
\* and at every time from max minutes from then on.
C28_ClocksAgree ==
  [][\A a \in Acct :
       /\ (AddMessage(a) /\ Len(messages'[a]) = Len(messages[a]) + 1) =>
             LET m == messages'[a][Len(messages'[a])]
             IN  DueInBounds(m, m.min, m.max)
       /\ \A id \in 1..MaxMsgs :
             (Rescheduling(a, id) /\ messages'[a] # messages[a]) =>
               DueInBounds(Row(messages'[a], id),
                           IntOf(GetSetting(settings[a], "min_interval", "60")),
                           IntOf(GetSetting(settings[a], "max_interval", "90")))]_vars

\* C29 (as claimed): in every state the min_interval setting of an account
\* is at most its max_interval setting, and every stored message has its
\* min bound at most its max bound.
C29_MinAtMostMax ==
  \A a \in accounts :
    /\ LET mn == GetSetting(settings[a], "min_interval", "60")
           mx == GetSetting(settings[a], "max_interval", "90")
       IN  (IsInt(mn) /\ IsInt(mx)) => IntOf(mn) <= IntOf(mx)
    /\ \A i \in 1..Len(messages[a]) : messages[a][i].min <= messages[a][i].max

\* the credential records of account a with is_active = 1
ActiveUsers(a) == {i \in 1..Len(users[a]) : users[a][i].active}

\* C30 (as claimed): after any logins an account holds at most one active
\* credential record, and a session that get_or_create_session establishes
\* is made from the session file of every active record, that is, of the
\* one there is.
C30_OneCredential ==
  [][\A a \in Acct :
       /\ (\E p \in Phones : Login(a, p)) => Cardinality(ActiveUsers(a))' <= 1
       /\ \A t \in Tasks \ {"shut"} :
            (task[t].acct = a /\ Establishes(t)) =>
              \A i \in ActiveUsers(a) :
                sessions'[task'[t].sess].file = users[a][i].file]_vars

\* C31 (as claimed): no step of send_now ends it with an exception: when
\* the repository cannot be opened the call returns a result.
C31_NoRepositoryRaise ==
  [][\A t \in UiTasks :
       task'[t].result.raised => task[t].result.raised]_vars

\* SpecDelete: SpecStorage with delete_account.  An update_stats of a pass
\* in flight fails on the removed directory and is caught.
NextDelete ==
  \/ \E a \in Acct : SendNowCall("ui1", a)
  \/ \E a \in Acct : SendNowStale("ui1", a)
  \/ Pass("ui1")
  \/ OpenFails("ui1")
  \/ \E a \in Acct : DeleteAccount(a)

SpecDelete == InitNow /\ [][NextDelete]_vars

\* one account with nothing but, possibly, the record of a login with p1
InitFlow ==
  /\ InitEngine
  /\ accounts = {"a1"}
  /\ \E r \in RepoFamily :
       /\ r.settings \in {FreshSettings, InitDatabase(FreshSettings)}
       /\ r.messages = <<>> /\ r.groups = <<>>
       /\ InitRepos([a \in Acct |-> IF a = "a1" THEN r ELSE NoRepo])

\* SpecGroups: one account; the front end adds groups
NextGroups ==
  \/ \E l \in Links : ProcessGroupCall("ui1", "a1", l)
  \/ \E f \in BOOLEAN : GetSession("ui1", f)
  \/ \E ok \in BOOLEAN : ConnectDone("ui1", ok)
  \/ JoinBegin("ui1")
  \/ \E ok \in BOOLEAN : JoinDone("ui1", ok)

SpecGroups == InitNow /\ [][NextGroups]_vars

\* SpecFlow: one account; senders log in
NextFlow ==
  \/ \E u \in Senders, a \in Acct : StartLogin(u, a)
  \/ \E u \in Senders, x \in Texts : MessageDropped(u, x)
  \/ \E u \in Senders, x \in Texts : ProcessPhone("ui1", u, x)
  \/ \E ok \in BOOLEAN : CodeRequestDone("ui1", ok)
  \/ \E u \in Senders, x \in Texts : ProcessSignIn("ui1", u, x)
  \/ \E o \in CodeAnswers : SignInDone("ui1", o)

SpecFlow == InitFlow /\ [][NextFlow]_vars

\* SpecRestart: SpecLive's account; start() and stop() of the AutoSender
\* are called in any order, start() at most twice
NextRestart ==
  \/ \E t \in SchedTasks : StartOf(t)
  \/ Stop
  \/ \E t \in SchedTasks : LoopTopOf(t)
  \/ \E t \in SchedTasks : NextAcctOf(t)
  \/ \E t \in SchedTasks : WakeOf(t)
  \/ \E t \in SchedTasks : Pass(t)

SpecRestart == InitLive /\ [][NextRestart]_vars

\* the texts of SpecFront: a command, a phone number, a group link
FrontTexts == {"/cancel", "p1", "g2"}

\* the senders of SpecFront: u1, who owns a1 and not a2, and the admin
FrontSenders == {"u1", Admin}

\* SpecFront: the callbacks and texts of these senders; account a1 exists
\* and is logged in with one group and one message, a2 does not exist
InitFront ==
  /\ InitEngine
  /\ accounts = {"a1"}
  /\ \E r \in RepoFamily :
       /\ r.settings = InitDatabase(FreshSettings)
       /\ r.messages \in MessagesAfter(1) /\ r.messages[1].next_send = StartNow
       /\ r.groups = GroupsAfter(1)
       /\ ~IsEmpty(r.users)
       /\ InitRepos([a \in Acct |-> IF a = "a1" THEN r ELSE NoRepo])

\* send_now and the session of process_group where the session file
\* exists, the connection succeeds and the transport accepts every message
PassPlain(t) ==
  \/ PassBegin(t)
  \/ GetSession(t, TRUE)
  \/ ConnectDone(t, TRUE)
  \/ Acquired(t)
  \/ NextMsg(t)
  \/ Deliver(t)
  \/ NextGroup(t)
  \/ SendDone(t, "ok")
  \/ PacingDone(t)
  \/ FinishMsg(t)

NextFront ==
  \/ \E u \in FrontSenders, a \in Acct : StartLogin(u, a)
  \/ \E u \in FrontSenders, act \in MenuActions, a \in Acct : ShowMenu(u, act, a)
  \/ \E u \in FrontSenders, a \in Acct : UnknownAction(u, a)
  \/ \E u \in FrontSenders, act \in {"add_group", "add_msg"}, a \in Acct : StartAdd(u, act, a)
  \/ \E u \in FrontSenders, a \in Acct : SendNowFrom("ui1", u, a)
  \/ \E u \in FrontSenders : CreateAccount(u)
  \/ PassPlain("ui1")
  \/ OpenFails("ui1")
  \/ \E u \in FrontSenders, x \in FrontTexts : MessageDropped(u, x)
  \/ \E u \in FrontSenders, x \in FrontTexts : ProcessPhone("ui1", u, x)
  \/ \E ok \in BOOLEAN : CodeRequestDone("ui1", ok)
  \/ \E u \in FrontSenders, x \in FrontTexts : ProcessSignIn("ui1", u, x)
  \/ \E o \in {"ok", "password", "invalid"} : SignInDone("ui1", o)
  \/ \E u \in FrontSenders, x \in FrontTexts : ProcessGroup("ui1", u, x)
  \/ JoinBegin("ui1")
  \/ \E ok \in BOOLEAN : JoinDone("ui1", ok)
  \/ \E u \in FrontSenders, x \in FrontTexts : ProcessMessage("ui1", u, x)

SpecFront == InitFront /\ [][NextFront]_vars

\* a front-end call opens the repository of account a
Opens(a) ==
  \/ \E k \in Keys, d \in Defaults : GetSettingCall(a, k, d)
  \/ \E k \in Keys : \E v \in SettingInputs(k) : SetSetting(a, k, v)

\* C32: opening the repository leaves every stored setting with its value
\* (set_setting changes the one key it is called for), gives a recognized
\* key that has no row its default, and adds no other key.
C32_SeedingIdempotent ==
  [][\A a \in Acct :
       Opens(a) =>
         \A k \in Keys :
           \/ \E v \in SettingInputs(k) : SetSetting(a, k, v) /\ settings'[a][k] = v
           \/ /\ settings[a][k] # NoRow
              /\ settings'[a][k] = settings[a][k]
           \/ /\ settings[a][k] = NoRow
              /\ settings'[a][k] = IF k \in SettingKeys THEN DefaultSettings[k] ELSE NoRow]_vars

\* the repository was opened again after set_setting had stored a
\* min_interval other than the default, and the value is still there
C32_Witness ==
  /\ Len(got) = 2 /\ sets = 1
  /\ got[2].key = "min_interval" /\ got[2].value = "120"
  /\ settings["a1"]["min_interval"] = "120"
  /\ settings["a1"]["max_interval"] = DefaultSettings["max_interval"]

\* C33 (as claimed): an account whose directory delete_account removed has
\* no repository data and no connected session in the cache.
C33_DeletedOwnsNothing ==
  \A a \in Acct \ accounts :
    /\ settings[a] = FreshSettings
    /\ IsEmpty(messages[a]) /\ IsEmpty(groups[a]) /\ IsEmpty(users[a])
    /\ IsEmpty(stats[a])
    /\ ~CacheHit(cache[a])

HasLink(gs, link) == \E i \in 1..Len(gs) : gs[i].link = link

LinkUnique(gs) ==
  \A i, j \in 1..Len(gs) : gs[i].link = gs[j].link => i = j

\* C34: no two group rows of an account have the same link; the group
\* table changes only when a join has succeeded, by one appended row with
\* the link of the call and the id the join returned; add_group of a stored
\* link returns False and changes nothing.
C34_LinkUnique ==
  /\ \A a \in Acct : LinkUnique(groups[a])
  /\ [][\A a \in Acct :
         /\ LinkUnique(groups'[a])
         /\ groups'[a] # groups[a] =>
              \E t \in UiTasks :
                /\ task[t].pc = "joining" /\ task[t].acct = a
                /\ task'[t].join.joined /\ task'[t].join.added
                /\ ~HasLink(groups[a], task[t].join.link)
                /\ Len(groups'[a]) = Len(groups[a]) + 1
                /\ SubSeq(groups'[a], 1, Len(groups[a])) = groups[a]
                /\ groups'[a][Len(groups'[a])].link = task[t].join.link
                /\ groups'[a][Len(groups'[a])].tgid = task'[t].join.tgid
         /\ \A t \in UiTasks :
              (/\ task[t].pc = "joining" /\ task[t].acct = a
               /\ task'[t].pc = "idle" /\ task'[t].join.joined
               /\ HasLink(groups[a], task[t].join.link))
              => ~task'[t].join.added /\ groups'[a] = groups[a]]_vars

\* a second process_group with a stored link joined and was refused by
\* add_group; the stored row is the deactivated one of before
C34_Witness ==
  /\ task["ui1"].pc = "idle"
  /\ task["ui1"].join.joined /\ ~task["ui1"].join.added
  /\ task["ui1"].join.link = 1
  /\ Len(groups["a1"]) = 2
  /\ ~groups["a1"][1].active /\ groups["a1"][1].link = 1

AuthFailures == {"invalid", "expired", "error"}

\* C35: when a sign-in of process_code or process_password is answered
\* with an authentication failure, the handler replies and does not raise,
\* the sender's entry in user_states and the credential records stay as
\* they are; an entry in a login state is removed only by a successful
\* sign-in of that sender.
C35_AuthFailureKeepsFlow ==
  [][\A t \in UiTasks :
       /\ (/\ task[t].pc \in {"signing", "signing_pw"}
           /\ task'[t].pc = "idle"
           /\ task'[t].answer \in AuthFailures)
          => /\ task'[t].reply \in {"Invalid code", "Code expired", "str(e)"}
             /\ ~task'[t].result.raised
             /\ userStates' = userStates
             /\ users' = users
       /\ \A u \in Senders :
            (userStates[u].state \in LoginStates /\ userStates'[u] = NoState)
            => /\ task[t].pc \in {"signing", "signing_pw"}
               /\ task[t].sender = u
               /\ task'[t].answer = "ok"]_vars

\* a wrong 2FA password was answered with the error; the sender is still
\* in state awaiting_password and account a1 has no credential record
C35_Witness ==
  /\ task["ui1"].pc = "idle" /\ task["ui1"].sender = "u1"
  /\ task["ui1"].answer = "error" /\ task["ui1"].reply = "str(e)"
  /\ userStates["u1"] = [state |-> "awaiting_password", acct |-> "a1", phone |-> "p1"]
  /\ IsEmpty(users["a1"])

\* C36 (as claimed): once stop() has returned from cleanup_all_sessions and
\* the scheduler loop has ended, the cache is empty and no session is
\* connected.
C36_NothingLeftAfterShutdown ==
  (task["shut"].pc = "ended" /\ task["shut"].mode = "all" /\ task["sched"].pc = "ended")
  => /\ \A a \in Acct : cache[a] = 0
     /\ \A i \in 1..Len(sessions) : ~IsConnected(i)

\* the loop of t is inside process_all_accounts
Sweeping(t) == task[t].pc \notin {"off", "loop_top", "sleep", "ended", "raised"}

\* C37 (as claimed): at no time are two scheduler loops inside
\* process_all_accounts.
C37_OneLoopSweeps ==
  \A t1, t2 \in SchedTasks : (Sweeping(t1) /\ Sweeping(t2)) => t1 = t2

\* C38: in every statistics row messages_sent is the sum of
\* successful_sends and failed_sends.
C38_SentIsSum ==
  \A a \in Acct : \A i \in 1..Len(stats[a]) :
    stats[a][i].sent = stats[a][i].ok + stats[a][i].fail

\* a scheduled pass and a send_now have both written the row of one date,
\* with a sent and a failed attempt in it
C38_Witness ==
  /\ Len(stats["a1"]) = 1
  /\ statLog["a1"][stats["a1"][1].date].calls >= 2
  /\ stats["a1"][1].ok >= 1 /\ stats["a1"][1].fail >= 1
  /\ task["ui1"].result.success
  /\ task["sched"].pc \in {"next_acct", "sleep"}

\* C39: the handler that ran last for an account ran for the admin or for
\* the sender whose own account it is, whether a callback named the account
\* or a text was routed with the account of the sender's entry.
C39_OnlyAuthorised ==
  /\ acted # NoAct =>
       \/ acted.sender = Admin
       \/ acted.sender = "u1" /\ acted.acct = "a1"
       \/ acted.sender = "u2" /\ acted.acct = "a2"
  /\ \A u \in Senders \ {Admin} :
       userStates[u] # NoState => userStates[u].acct = GetUserAccountId(u)

\* the admin's text was routed to process_message of a1 while u1 is about
\* to add a group to a1
C39_Witness ==
  /\ acted = [sender |-> Admin, acct |-> "a1", action |-> "message"]
  /\ task["ui1"].reply = "Message Added"
  /\ userStates["u1"] = [state |-> "awaiting_group", acct |-> "a1", phone |-> ""]
  /\ Len(messages["a1"]) = 2

====
